---- MODULE Spec2Model ----
(***************************************************************************)
(* Placement engine of exo: the CSP shard placement solver                 *)
(* (src/exo/master/placement_csp.py) and the placement orchestrator        *)
(* (src/exo/master/placement.py).                                          *)
(*                                                                         *)
(* Scores are floats in [0,1] in the program; here they are integers in    *)
(* percent (0..100) and a weighted score is an integer in 0..10000, so the *)
(* weights 0.40/0.30/0.15/0.10/0.05 become 40/30/15/10/5.                  *)
(* Memory and shard sizes are counted in units of 10^9 bytes (TLC's         *)
(* integers are 32 bits wide), so int(1e12) bytes is 1000 units.           *)
(* Shard indices are 0-based as in the program; shard_sizes is a TLA+      *)
(* sequence, so shard i has size shard_sizes[i + 1].                       *)
(***************************************************************************)
EXTENDS Integers, Sequences, FiniteSets, TLC

\* ------------------------------------------------------------------ bounds
MaxDevices == 2
MaxShards == 3
MaxNodes == 3
MaxInstances == 2
RamVals == {1, 2}
MemVals == {1, 2}
SizeVals == {1, 2}
ScoreVals == {0, 100}

\* ------------------------------------------------------- program constants
\* int(1e12): the remaining memory _greedy_placement assumes for every device
GreedyAssumedMemory == 1000
\* default of max_backtrack_depth
MaxBacktrackDepth == 100

VARIABLES
    \* --- solve_placement: inputs
    devices,            \* list of GPUDevice: [device_id, memory_available]
    device_scores,      \* list of GPUDeviceScore
    num_shards,
    shard_sizes,        \* shard_sizes_bytes
    timeout_positive,   \* self.timeout_seconds > 0
    \* --- solve_placement: control
    pc,                 \* "start","wait_for","search","greedy","done","raised"
    mode,               \* inside the search: "call", "loop", "ret", "idle"
    stack,              \* frames of _backtrack, outermost first
    ret,                \* value returned by the last finished _backtrack call
    assignment,         \* the dict being built (search or greedy)
    domains,
    shard_order,        \* _greedy_placement: the sorted shard order
    gpos,               \* _greedy_placement: position in shard_order
    device_remaining_memory,
    result,             \* the dict solve_placement returned
    source,             \* who produced result: "none", "csp", "greedy"
    error,              \* exception raised to the caller, "none" if none
    \* --- the caller's side of the awaited call
    timer_expired,      \* timeout_seconds of wall-clock time have elapsed
    cancel_requested,   \* the caller asked for cancellation
    steps_after_cancel, \* steps of _backtrack run after the request (capped)
    \* --- place_instance: inputs
    topology,           \* [edges, rdma]: directed connections, the RDMA ones
    node_memory,        \* node id -> ram_available
    required_nodes,     \* {} stands for None (an empty set is falsy as well)
    command,            \* PlaceInstance
    current_instances,  \* instance id -> instance
    \* --- place_instance: control
    ppc,                \* "idle","start","filtered","sharded","selected","placed","raised"
    cycles_with_sufficient_memory,
    selected_cycle,
    target_instances,   \* the mapping place_instance returned
    perror,             \* the ValueError raised to the caller, "none" if none
    \* --- delete_instance
    dpc,                \* "idle", "done", "raised"
    dcommand,           \* command.instance_id
    dgiven,             \* the mapping delete_instance was given
    dresult,            \* the mapping delete_instance returned
    \* --- get_transition_events
    epc,                \* "idle", "done"
    efrom,              \* its argument current_instances
    eto,                \* its argument target_instances
    events,             \* the list of events it returned
    \* --- telemetry (exo.gpu.clustering, exo.gpu.clustering_improved)
    collector_kind,     \* the class record_metrics is called on
    max_history,        \* TelemetryCollector._max_history
    registered_devices, \* keys of GPUClusteringManagerImproved._devices
    current_metrics,    \* _current_metrics: device id -> snapshot
    metrics_history,    \* _metrics_history: device id -> snapshots, oldest first
    inbox,              \* record_metrics calls received and not yet run, in order
    next_timestamp,     \* number of the next call received
    recorded_log,       \* every snapshot the collector recorded, in order
    last_outcome,       \* how the last call run ended: "none", "ok", an exception
    last_read,          \* what the last reader got from get_metrics and get_metrics_history
    shutdown_phase,     \* shutdown of a manager: "none", "signalled" (event set), "complete"
    last_aggregate,     \* what the last call of get_aggregated_metrics returned or raised
    \* --- GPUTelemetryAggregator.aggregate_cluster_metrics
    devices_by_node,    \* its argument: the device lists of the nodes, in dict order
    cluster_metrics,    \* what the call returned or raised, <<>> before the call
    \* --- WorkloadDistributor, WorkloadDistributorImproved
    distributor,        \* the class of the distributor
    strategy,           \* "uniform": distribute_uniform, "capacity": distribute_by_capacity
    device_list,        \* devices of distribute_uniform: device numbers, "cuda:N" is N
    max_per_device,     \* <<>> for None, <<k>> for k
    capacities,         \* dict of distribute_by_capacity: [device_id, weight] in dict order
    workload_items,     \* the items, a list
    distribution,       \* what the call returned or raised, <<>> before the call
    \* --- the device scorers
    scorer,             \* the function that scores
    scored_devices,     \* the devices it is given
    required_memory,    \* shard_size_bytes / estimated_memory_bytes
    device_score_list,  \* the scores it returned, <<>> before the call
    \* --- GPUAccessPolicy (exo.security.gpu_access)
    access_policy,      \* roles, custom_permissions, denied_permissions, expired
    access_call,        \* the last call on the policy and what it returned
    \* --- GPUAccessControl: the memory quota of one principal
    memory_quota_bytes, \* the policy's quota: <<>> for None, <<q>> for q
    memory_usage,       \* _memory_usage of the principal
    quota_requests,     \* request -> its size and how far its caller has come
    \* --- ThermalAdaptiveExecutor (exo.worker.thermal_executor)
    thermal_state,      \* current_temperature_c and is_paused_for_cooling
    callbacks,          \* whether _pause_callback and _resume_callback are set
    notifications,      \* the callbacks fired so far, in order
    readings_handled,   \* the number of readings handled so far
    callbacks_at_first_reading  \* <<>>, then <<callbacks>> as the first reading found them

csp_vars == <<devices, device_scores, num_shards, shard_sizes, timeout_positive,
              pc, mode, stack, ret, assignment, domains, shard_order, gpos,
              device_remaining_memory, result, source, error,
              timer_expired, cancel_requested, steps_after_cancel>>

place_vars == <<topology, node_memory, required_nodes, command, current_instances,
                ppc, cycles_with_sufficient_memory, selected_cycle,
                target_instances, perror>>

inst_vars == <<dpc, dcommand, dgiven, dresult, epc, efrom, eto, events>>

tel_vars == <<collector_kind, max_history, registered_devices, current_metrics,
              metrics_history, inbox, next_timestamp, recorded_log, last_outcome,
              last_read, shutdown_phase, last_aggregate>>

agg_vars == <<devices_by_node, cluster_metrics>>

dist_vars == <<distributor, strategy, device_list, max_per_device, capacities,
               workload_items, distribution>>

score_vars == <<scorer, scored_devices, required_memory, device_score_list>>

access_vars == <<access_policy, access_call>>

quota_vars == <<memory_quota_bytes, memory_usage, quota_requests>>

thermal_vars == <<thermal_state, callbacks, notifications, readings_handled,
                  callbacks_at_first_reading>>

guard_vars == <<access_vars, quota_vars, thermal_vars>>

calc_vars == <<agg_vars, dist_vars, score_vars, guard_vars>>

vars == <<csp_vars, place_vars, inst_vars, tel_vars, calc_vars>>

\* ----------------------------------------------------------------- helpers
EmptyMap == [x \in {} |-> 0]

Min(a, b) == IF a <= b THEN a ELSE b

RECURSIVE SumOver(_, _)
\* sum of f[x] for x in S
SumOver(S, f) ==
    IF S = {} THEN 0
    ELSE LET x == CHOOSE y \in S : TRUE IN f[x] + SumOver(S \ {x}, f)

RECURSIVE AscendingSeq(_)
\* the elements of a finite set of integers, ascending
AscendingSeq(S) ==
    IF S = {} THEN <<>>
    ELSE LET m == CHOOSE x \in S : \A y \in S : x <= y
         IN <<m>> \o AscendingSeq(S \ {m})

SeqRange(s) == {s[i] : i \in 1..Len(s)}

\* the position element i of s takes in a stable descending sort by key: after
\* every element of greater key and every earlier element of equal key
SortedPosition(s, key, i) ==
    1 + Cardinality({j \in 1..Len(s) :
            \/ key[s[j]] > key[s[i]]
            \/ (key[s[j]] = key[s[i]] /\ j < i)})

\* list.sort(key=..., reverse=True) / sorted(..., reverse=True): stable,
\* descending by key
StableSortDesc(s, key) ==
    [k \in 1..Len(s) |-> s[CHOOSE i \in 1..Len(s) : SortedPosition(s, key, i) = k]]

\* ---------------------------------------------------------- GPUDeviceScore
WeightedScore(s) ==
    s.compute_score * 40 + s.memory_score * 30 + s.network_score * 15
        + s.thermal_score * 10 + s.bandwidth_score * 5

\* next((s for s in device_scores if s.device_id == did), None): index or 0
FirstScoreIndex(scores, did) ==
    IF \E i \in 1..Len(scores) : scores[i].device_id = did
    THEN CHOOSE i \in 1..Len(scores) :
            /\ scores[i].device_id = did
            /\ \A j \in 1..(i - 1) : scores[j].device_id # did
    ELSE 0

\* DomainSortKey that gives every device the default key
DomainSortKeyDefault(scores, did) == 0

\* the sort key of _compute_initial_domains: the weighted score, default 0.0
DomainSortKey(scores, did) ==
    LET i == FirstScoreIndex(scores, did)
    IN IF i = 0 THEN 0 ELSE WeightedScore(scores[i])

\* FeasibleDevice without its lookup of the device's score
FeasibleDeviceUnscored(device, shard_size, scores) ==
    ~(device.memory_available < shard_size)

\* the test of _compute_initial_domains for one device and one shard size
FeasibleDevice(device, shard_size, scores) ==
    /\ ~(device.memory_available < shard_size)
    /\ LET i == FirstScoreIndex(scores, device.device_id)
       IN i # 0 /\ scores[i].memory_score > 0

ComputeInitialDomains(n, sizes, devs, scores) ==
    [shard_idx \in 0..(n - 1) |->
        LET feasible == SelectSeq(devs,
                LAMBDA d : FeasibleDevice(d, sizes[shard_idx + 1], scores))
            ids == [i \in 1..Len(feasible) |-> feasible[i].device_id]
            key == [did \in SeqRange(ids) |-> DomainSortKey(scores, did)]
        IN StableSortDesc(ids, key)]


\* ------------------------------------------------- _propagate_constraints
\* memory_available of the first device with this id, -1 when there is none
\* (next((d for d in devices if d.device_id == assigned_device), None))
DeviceMemory(devs, did) ==
    IF \E i \in 1..Len(devs) : devs[i].device_id = did
    THEN LET i == CHOOSE i \in 1..Len(devs) :
                    /\ devs[i].device_id = did
                    /\ \A j \in 1..(i - 1) : devs[j].device_id # did
         IN devs[i].memory_available
    ELSE -1

\* the bytes the assignment puts on device did
DeviceTotalSize(asg, sizes, did) ==
    SumOver({i \in DOMAIN asg : asg[i] = did}, [i \in DOMAIN asg |-> sizes[i + 1]])

\* RemoveDevice that leaves the domain as it is
RemoveDeviceKept(domain, did) == domain

\* domains[other] without the assigned device
RemoveDevice(domain, did) == SelectSeq(domain, LAMBDA d : d # did)

\* Touched without the test that the shard is unassigned
TouchedAssignedToo(asg, doms, did) ==
    {i \in DOMAIN doms : did \in SeqRange(doms[i])}

\* the unassigned shards whose domain holds the assigned device
Touched(asg, doms, did) ==
    {i \in DOMAIN doms : i \notin DOMAIN asg /\ did \in SeqRange(doms[i])}

\* the first shard (in dict order) whose domain the removal empties, -1 if none
FirstEmptied(asg, doms, did) ==
    LET E == {i \in Touched(asg, doms, did) : RemoveDevice(doms[i], did) = <<>>}
    IN IF E = {} THEN -1 ELSE CHOOSE i \in E : \A j \in E : i <= j

\* [ok, domains]: the return value and the domains as the call leaves them
PropagateConstraints(asg, doms, assigned_device, sizes, devs) ==
    LET mem == DeviceMemory(devs, assigned_device)
        stop == FirstEmptied(asg, doms, assigned_device)
    IN IF mem = -1 \/ DeviceTotalSize(asg, sizes, assigned_device) > mem
       THEN [ok |-> FALSE, domains |-> doms]
       ELSE [ok |-> stop = -1,
             domains |->
                [i \in DOMAIN doms |->
                    IF /\ i \in Touched(asg, doms, assigned_device)
                       /\ (stop = -1 \/ i <= stop)
                    THEN RemoveDevice(doms[i], assigned_device)
                    ELSE doms[i]]]

\* ---------------------------------------------------- _is_valid_assignment
IsValidAssignment(asg, sizes, devs) ==
    \A k \in 1..Len(devs) :
        (devs[k].device_id \in {asg[i] : i \in DOMAIN asg})
            => ~(DeviceTotalSize(asg, sizes, devs[k].device_id)
                    > devs[k].memory_available)

\* ------------------------------------------------------------- _backtrack
\* len(assignment) == len(domains)
IsComplete(asg, doms) == Cardinality(DOMAIN asg) = Cardinality(DOMAIN doms)

\* min(unassigned, key=len(domains[i])): the first minimum in dict order
SelectUnassigned(asg, doms) ==
    LET U == DOMAIN doms \ DOMAIN asg
    IN CHOOSE i \in U :
        /\ \A j \in U : Len(doms[i]) <= Len(doms[j])
        /\ \A j \in U : (Len(doms[j]) = Len(doms[i])) => i <= j

\* NextCandidate that tries the same device again
NextCandidateStuck(pos) == pos

\* the for loop over domains[shard_idx] moves to the next device
NextCandidate(pos) == pos + 1

Top == stack[Len(stack)]
Pop == SubSeq(stack, 1, Len(stack) - 1)
WithTop(f) == [stack EXCEPT ![Len(stack)] = f]

\* Without that deletes nothing
WithoutNothing(asg, i) == asg

\* del assignment[i]
Without(asg, i) == [j \in DOMAIN asg \ {i} |-> asg[j]]

CountStep ==
    steps_after_cancel' =
        IF cancel_requested THEN Min(steps_after_cancel + 1, 2)
        ELSE steps_after_cancel

\* ------------------------------------------------------ _greedy_placement
\* sorted(range(num_shards), key=size, reverse=True)
ShardOrder(n, sizes) ==
    StableSortDesc([i \in 1..n |-> i - 1], [i \in 0..(n - 1) |-> sizes[i + 1]])

\* indices of device_scores, sorted by weighted score, best first
ScoreOrder(scores) ==
    StableSortDesc([i \in 1..Len(scores) |-> i],
                   [i \in 1..Len(scores) |-> WeightedScore(scores[i])])

\* the remaining memory the greedy tracks for every scored device at its start
InitialRemaining(scores) ==
    [did \in {scores[i].device_id : i \in 1..Len(scores)} |-> GreedyAssumedMemory]

\* device_remaining_memory.get(device_id, 0) >= size and weighted_score > -1
GreedyQualifies(s, remaining, size) ==
    /\ (IF s.device_id \in DOMAIN remaining THEN remaining[s.device_id] ELSE 0) >= size
    /\ WeightedScore(s) > -1

\* the device the greedy gives a shard of this size to
GreedyChoice(scores, remaining, size) ==
    LET order == ScoreOrder(scores)
        ok == {k \in 1..Len(order) : GreedyQualifies(scores[order[k]], remaining, size)}
    IN IF ok # {}
       THEN scores[order[CHOOSE k \in ok : \A l \in ok : k <= l]].device_id
       ELSE scores[1].device_id

\* control passes to _greedy_placement: its locals are initialised
EnterGreedy ==
    /\ pc' = "greedy"
    /\ mode' = "idle"
    /\ stack' = <<>>
    /\ assignment' = EmptyMap
    /\ device_remaining_memory' = InitialRemaining(device_scores)
    /\ shard_order' = ShardOrder(num_shards, shard_sizes)
    /\ gpos' = 1

\* ------------------------------------------------------------------- Init
ScoreRecord(did, c, m) ==
    [device_id |-> did, compute_score |-> c, memory_score |-> m,
     network_score |-> 100, thermal_score |-> 100, bandwidth_score |-> 100]

InitCSP ==
    /\ \E n \in 0..MaxDevices :
        /\ \E mem \in [1..n -> MemVals] :
              devices = [i \in 1..n |-> [device_id |-> i, memory_available |-> mem[i]]]
        /\ \E scored \in SUBSET (1..n) :
           \E c \in [scored -> ScoreVals], m \in [scored -> ScoreVals] :
              device_scores =
                LET ids == AscendingSeq(scored)
                IN [k \in 1..Len(ids) |-> ScoreRecord(ids[k], c[ids[k]], m[ids[k]])]
    /\ \E k \in 0..MaxShards : shard_sizes \in [1..k -> SizeVals]
    /\ num_shards \in 0..MaxShards
    /\ timeout_positive \in BOOLEAN
    /\ pc = "start"
    /\ mode = "idle"
    /\ stack = <<>>
    /\ ret = FALSE
    /\ assignment = EmptyMap
    /\ domains = EmptyMap
    /\ shard_order = <<>>
    /\ gpos = 1
    /\ device_remaining_memory = EmptyMap
    /\ result = EmptyMap
    /\ source = "none"
    /\ error = "none"
    /\ timer_expired = FALSE
    /\ cancel_requested = FALSE
    /\ steps_after_cancel = 0

\* ---------------------------------------------------------- solve_placement
\* the two input checks
Validate ==
    /\ pc = "start"
    /\ IF devices = <<>> \/ device_scores = <<>> \/ Len(shard_sizes) # num_shards
       THEN pc' = "raised" /\ error' = "ValueError"
       ELSE pc' = "wait_for" /\ error' = error
    /\ UNCHANGED <<place_vars, inst_vars, tel_vars, calc_vars>>
    /\ UNCHANGED <<devices, device_scores, num_shards, shard_sizes, timeout_positive,
                   mode, stack, ret, assignment, domains, shard_order, gpos,
                   device_remaining_memory, result, source,
                   timer_expired, cancel_requested, steps_after_cancel>>

\* asyncio.wait_for with timeout <= 0 cancels the search before its first step
\* and raises TimeoutError, which solve_placement turns into the greedy call
WaitForTimesOut ==
    /\ pc = "wait_for"
    /\ ~timeout_positive
    /\ EnterGreedy
    /\ UNCHANGED <<place_vars, inst_vars, tel_vars, calc_vars>>
    /\ UNCHANGED <<devices, device_scores, num_shards, shard_sizes, timeout_positive,
                   ret, domains, result, source, error,
                   timer_expired, cancel_requested, steps_after_cancel>>

\* _solve_csp up to its first call of _backtrack
SolveCspBegin ==
    /\ pc = "wait_for"
    /\ timeout_positive
    /\ LET doms == ComputeInitialDomains(num_shards, shard_sizes, devices, device_scores)
       IN /\ domains' = doms
          /\ IF \E i \in DOMAIN doms : doms[i] = <<>>
             THEN EnterGreedy
             ELSE /\ pc' = "search"
                  /\ mode' = "call"
                  /\ assignment' = EmptyMap
                  /\ UNCHANGED <<stack, shard_order, gpos, device_remaining_memory>>
    /\ UNCHANGED <<place_vars, inst_vars, tel_vars, calc_vars>>
    /\ UNCHANGED <<devices, device_scores, num_shards, shard_sizes, timeout_positive,
                   ret, result, source, error,
                   timer_expired, cancel_requested, steps_after_cancel>>

\* _backtrack is entered: depth limit, completeness, choice of the next shard.
\* entry_assignment and entry_domains record the arguments' values at the
\* start of the call (history the code does not keep).
BacktrackEnter ==
    /\ pc = "search"
    /\ mode = "call"
    /\ IF Len(stack) > MaxBacktrackDepth
       THEN ret' = FALSE /\ mode' = "ret" /\ stack' = stack
       ELSE IF IsComplete(assignment, domains)
       THEN /\ ret' = IsValidAssignment(assignment, shard_sizes, devices)
            /\ mode' = "ret"
            /\ stack' = stack
       ELSE LET shard_idx == SelectUnassigned(assignment, domains)
            IN /\ stack' = Append(stack, [shard_idx |-> shard_idx,
                                          iter |-> domains[shard_idx],
                                          pos |-> 1,
                                          old_domains |-> domains,
                                          entry_assignment |-> assignment,
                                          entry_domains |-> domains])
               /\ mode' = "loop"
               /\ ret' = ret
    /\ CountStep
    /\ UNCHANGED <<place_vars, inst_vars, tel_vars, calc_vars>>
    /\ UNCHANGED <<devices, device_scores, num_shards, shard_sizes, timeout_positive,
                   pc, assignment, domains, shard_order, gpos,
                   device_remaining_memory, result, source, error,
                   timer_expired, cancel_requested>>

\* one pass of the for loop up to the recursive call: assign, save, propagate
TryCandidate ==
    /\ pc = "search"
    /\ mode = "loop"
    /\ Top.pos <= Len(Top.iter)
    /\ LET device_id == Top.iter[Top.pos]
           asg == (Top.shard_idx :> device_id) @@ assignment
           p == PropagateConstraints(asg, domains, device_id, shard_sizes, devices)
       IN IF p.ok
          THEN /\ assignment' = asg
               /\ domains' = p.domains
               /\ stack' = WithTop([Top EXCEPT !.old_domains = domains])
               /\ mode' = "call"
          ELSE /\ assignment' = Without(asg, Top.shard_idx)
               /\ domains' = domains
               /\ stack' = WithTop([Top EXCEPT !.old_domains = domains,
                                               !.pos = NextCandidate(Top.pos)])
               /\ mode' = "loop"
    /\ CountStep
    /\ UNCHANGED <<place_vars, inst_vars, tel_vars, calc_vars>>
    /\ UNCHANGED <<devices, device_scores, num_shards, shard_sizes, timeout_positive,
                   pc, ret, shard_order, gpos,
                   device_remaining_memory, result, source, error,
                   timer_expired, cancel_requested>>

\* the for loop is exhausted: this call returns False
LoopExhausted ==
    /\ pc = "search"
    /\ mode = "loop"
    /\ Top.pos > Len(Top.iter)
    /\ stack' = Pop
    /\ ret' = FALSE
    /\ mode' = "ret"
    /\ CountStep
    /\ UNCHANGED <<place_vars, inst_vars, tel_vars, calc_vars>>
    /\ UNCHANGED <<devices, device_scores, num_shards, shard_sizes, timeout_positive,
                   pc, assignment, domains, shard_order, gpos,
                   device_remaining_memory, result, source, error,
                   timer_expired, cancel_requested>>

\* the recursive call came back: success goes upward, failure is undone
BacktrackReturn ==
    /\ pc = "search"
    /\ mode = "ret"
    /\ stack # <<>>
    /\ IF ret
       THEN /\ stack' = Pop
            /\ mode' = "ret"
            /\ UNCHANGED <<assignment, domains>>
       ELSE /\ assignment' = Without(assignment, Top.shard_idx)
            /\ domains' = Top.old_domains
            /\ stack' = WithTop([Top EXCEPT !.pos = NextCandidate(Top.pos)])
            /\ mode' = "loop"
    /\ CountStep
    /\ UNCHANGED <<place_vars, inst_vars, tel_vars, calc_vars>>
    /\ UNCHANGED <<devices, device_scores, num_shards, shard_sizes, timeout_positive,
                   pc, ret, shard_order, gpos,
                   device_remaining_memory, result, source, error,
                   timer_expired, cancel_requested>>

\* _solve_csp returns to solve_placement: the assignment when it is truthy,
\* else the greedy fallback
SolveCspReturn ==
    /\ pc = "search"
    /\ mode = "ret"
    /\ stack = <<>>
    /\ IF ret /\ assignment # EmptyMap
       THEN /\ pc' = "done"
            /\ mode' = "idle"
            /\ result' = assignment
            /\ source' = "csp"
            /\ UNCHANGED <<stack, assignment, shard_order, gpos, device_remaining_memory>>
       ELSE /\ EnterGreedy
            /\ UNCHANGED <<result, source>>
    /\ UNCHANGED <<place_vars, inst_vars, tel_vars, calc_vars>>
    /\ UNCHANGED <<devices, device_scores, num_shards, shard_sizes, timeout_positive,
                   ret, domains, error,
                   timer_expired, cancel_requested, steps_after_cancel>>

\* one pass of the greedy loop over shard_order
GreedyStep ==
    /\ pc = "greedy"
    /\ gpos <= Len(shard_order)
    /\ LET shard_idx == shard_order[gpos]
           size == shard_sizes[shard_idx + 1]
           best_device == GreedyChoice(device_scores, device_remaining_memory, size)
       IN /\ assignment' = (shard_idx :> best_device) @@ assignment
          /\ device_remaining_memory' =
                [device_remaining_memory EXCEPT ![best_device] = @ - size]
    /\ gpos' = gpos + 1
    /\ UNCHANGED <<place_vars, inst_vars, tel_vars, calc_vars>>
    /\ UNCHANGED <<devices, device_scores, num_shards, shard_sizes, timeout_positive,
                   pc, mode, stack, ret, domains, shard_order,
                   result, source, error,
                   timer_expired, cancel_requested, steps_after_cancel>>

\* the greedy loop is over: solve_placement returns the greedy's assignment
GreedyReturn ==
    /\ pc = "greedy"
    /\ gpos > Len(shard_order)
    /\ pc' = "done"
    /\ result' = assignment
    /\ source' = "greedy"
    /\ UNCHANGED <<place_vars, inst_vars, tel_vars, calc_vars>>
    /\ UNCHANGED <<devices, device_scores, num_shards, shard_sizes, timeout_positive,
                   mode, stack, ret, assignment, domains, shard_order, gpos,
                   device_remaining_memory, error,
                   timer_expired, cancel_requested, steps_after_cancel>>

\* ------------------------------------------------- the caller's event loop
\* timeout_seconds have elapsed while the search runs.  The search never
\* suspends (every await in _solve_csp and _backtrack is on a coroutine that
\* runs straight through), so the event loop cannot run the timer's callback
\* before the search has returned: the expiry changes nothing the search reads.
TimerExpires ==
    /\ pc = "search"
    /\ timeout_positive
    /\ ~timer_expired
    /\ timer_expired' = TRUE
    /\ UNCHANGED <<place_vars, inst_vars, tel_vars, calc_vars>>
    /\ UNCHANGED <<devices, device_scores, num_shards, shard_sizes, timeout_positive,
                   pc, mode, stack, ret, assignment, domains, shard_order, gpos,
                   device_remaining_memory, result, source, error,
                   cancel_requested, steps_after_cancel>>

\* the caller requests cancellation while the search runs.  _backtrack reads
\* no cancellation flag and reaches no suspension point where a CancelledError
\* could be delivered.
CancelRequested ==
    /\ pc = "search"
    /\ ~cancel_requested
    /\ cancel_requested' = TRUE
    /\ UNCHANGED <<place_vars, inst_vars, tel_vars, calc_vars>>
    /\ UNCHANGED <<devices, device_scores, num_shards, shard_sizes, timeout_positive,
                   pc, mode, stack, ret, assignment, domains, shard_order, gpos,
                   device_remaining_memory, result, source, error,
                   timer_expired, steps_after_cancel>>

\* ============================================================ placement.py
Nodes == 1..MaxNodes

\* the model cards requests are drawn from
ModelCards ==
    { [model_id |-> "model-a", storage_size |-> 2, hidden_size |-> 3, supports_tensor |-> TRUE],
      [model_id |-> "model-b", storage_size |-> 1, hidden_size |-> 4, supports_tensor |-> FALSE],
      [model_id |-> "mlx-community/DeepSeek-V3.1-8bit", storage_size |-> 3, hidden_size |-> 4,
       supports_tensor |-> TRUE] }

RequiredChoices == {{}, {1}, {1, 2}}

\* an instance that exists before the call
ExistingInstance ==
    [instance_id |-> 1, kind |-> "MlxRing", nodes |-> <<1>>, shard_assignments |-> (0 :> 1)]

NoCommand ==
    [min_nodes |-> 1, sharding |-> "Pipeline", instance_meta |-> "MlxRing",
     model_card |-> CHOOSE m \in ModelCards : m.model_id = "model-a"]

\* --- Topology (exo.shared.topology): cycles, RDMA cycles, leaf nodes
\* injective sequences of nodes of length 1..MaxNodes
NodeSeqs ==
    UNION { {s \in [1..k -> Nodes] : \A i, j \in 1..k : i # j => s[i] # s[j]} : k \in 1..MaxNodes }

Succ(c, i) == c[(i % Len(c)) + 1]

\* every hop of the cycle, the closing one included, is in E
HopsIn(c, E) == \A i \in 1..Len(c) : <<c[i], Succ(c, i)>> \in E

\* Topology.get_cycles: the simple cycles, each written from its smallest node,
\* and every node as a cycle of length one
GetCycles(topo) ==
    { c \in NodeSeqs :
        /\ \A i \in 1..Len(c) : c[1] <= c[i]
        /\ Len(c) > 1 => HopsIn(c, topo.edges) }

\* Topology.is_rdma_cycle: composed entirely of RDMA-class links
IsRdmaCycle(topo, c) == HopsIn(c, topo.rdma)

Neighbors(topo, n) == {m \in Nodes : <<n, m>> \in topo.edges \/ <<m, n>> \in topo.edges}

\* Topology.node_is_leaf: a node with exactly one neighbour
NodeIsLeaf(topo, n) == Cardinality(Neighbors(topo, n)) = 1

\* --- placement_utils
CycleRam(c, mem) == SumOver(SeqRange(c), mem)

\* filter_cycles_by_memory: total available RAM of the members >= model size
FilterCyclesByMemory(cycles, mem, storage_size) ==
    {c \in cycles : CycleRam(c, mem) >= storage_size}

\* get_smallest_cycles: the cycles of the smallest node count
GetSmallestCycles(cycles) ==
    {c \in cycles : \A d \in cycles : Len(c) <= Len(d)}

\* get_shard_assignments(model_card, selected_cycle, sharding, node_memory):
\* one shard for every node of the cycle, in the cycle's order (shard index ->
\* node id); it is given neither devices nor scores
GetShardAssignments(model_card, cycle, sharding, mem) ==
    [i \in 0..(Len(cycle) - 1) |-> cycle[i + 1]]

\* --- place_instance
\* MinNodesFilter with the comparison turned around
MinNodesFilterInverted(cycles, min_nodes) == {c \in cycles : Len(c) <= min_nodes}

\* filter(lambda it: len(it) >= command.min_nodes, cycles)
MinNodesFilter(cycles, min_nodes) == {c \in cycles : Len(c) >= min_nodes}

\* RequiredNodesFilter that never filters
RequiredNodesFilterSkipped(cycles, required) == cycles

\* if required_nodes: keep the cycles whose node_ids hold all of them
RequiredNodesFilter(cycles, required) ==
    IF required # {} THEN {c \in cycles : required \subseteq SeqRange(c)} ELSE cycles

\* TensorDivisible that accepts every cycle length
TensorDivisibleSkipped(c, hidden_size) == TRUE

\* command.model_card.hidden_size % len(cycle) == 0
TensorDivisible(c, hidden_size) == hidden_size % Len(c) = 0

TensorFilter(cycles, hidden_size) == {c \in cycles : TensorDivisible(c, hidden_size)}

\* SelectionCandidates without the RDMA restriction
SelectionCandidatesAnyLink(topo, cmd, cycles) ==
    LET smallest == GetSmallestCycles(cycles)
        cycles_with_leaf_nodes ==
            {c \in smallest : \E n \in SeqRange(c) : NodeIsLeaf(topo, n)}
    IN IF cycles_with_leaf_nodes # {} THEN cycles_with_leaf_nodes ELSE smallest

\* the cycles max() is taken over: RDMA restriction, then the leaf preference
SelectionCandidates(topo, cmd, cycles) ==
    LET smallest_cycles == GetSmallestCycles(cycles)
        smallest_rdma_cycles == {c \in smallest_cycles : IsRdmaCycle(topo, c)}
        smallest == IF cmd.instance_meta = "MlxJaccl" /\ smallest_rdma_cycles # {}
                    THEN smallest_rdma_cycles ELSE smallest_cycles
        cycles_with_leaf_nodes ==
            {c \in smallest : \E n \in SeqRange(c) : NodeIsLeaf(topo, n)}
    IN IF cycles_with_leaf_nodes # {} THEN cycles_with_leaf_nodes ELSE smallest

\* MaxRamCycles that takes any candidate
MaxRamCyclesAny(cands, mem) == cands

\* max(..., key=summed ram_available): a cycle of maximal RAM; which of several
\* the program takes depends on the order get_cycles lists them in
MaxRamCycles(cands, mem) ==
    {c \in cands : \A d \in cands : CycleRam(c, mem) >= CycleRam(d, mem)}

\* FreshInstanceId that always gives the same id
FreshInstanceIdFixed(instances) == 1

\* InstanceId(): an id no instance has yet
FreshInstanceId(instances) ==
    CHOOSE i \in 1..(Cardinality(DOMAIN instances) + 1) : i \notin DOMAIN instances

\* the links of the ring over the nodes; a topology is a sub-graph of the ring
RingLinks == {{n, (n % MaxNodes) + 1} : n \in Nodes}
LinkSets == SUBSET RingLinks
EdgesOf(links) == {e \in Nodes \X Nodes : {e[1], e[2]} \in links}
\* the nodes whose mutual links are RDMA-class
RdmaNodeChoices == {{}, Nodes \ {1}, Nodes}

\* neither delete_instance nor get_transition_events has been called
InstIdle ==
    /\ dpc = "idle"
    /\ dcommand = 0
    /\ dgiven = EmptyMap
    /\ dresult = EmptyMap
    /\ epc = "idle"
    /\ efrom = EmptyMap
    /\ eto = EmptyMap
    /\ events = <<>>

\* aggregate_cluster_metrics is not in use
AggIdle ==
    /\ devices_by_node = <<>>
    /\ cluster_metrics = <<>>

\* no workload distributor is in use
DistIdle ==
    /\ distributor = "none"
    /\ strategy = "none"
    /\ device_list = <<>>
    /\ max_per_device = <<>>
    /\ capacities = <<>>
    /\ workload_items = <<>>
    /\ distribution = <<>>

\* no scorer is in use
ScoreIdle ==
    /\ scorer = "none"
    /\ scored_devices = <<>>
    /\ required_memory = 0
    /\ device_score_list = <<>>

\* no access policy is in use
AccessIdle ==
    /\ access_policy = <<>>
    /\ access_call = [name |-> "none"]

\* no memory quota is in use
QuotaIdle ==
    /\ memory_quota_bytes = <<>>
    /\ memory_usage = 0
    /\ quota_requests = <<>>

\* no thermal executor is in use
ThermalIdle ==
    /\ thermal_state = <<>>
    /\ callbacks = <<>>
    /\ notifications = <<>>
    /\ readings_handled = 0
    /\ callbacks_at_first_reading = <<>>

GuardIdle == AccessIdle /\ QuotaIdle /\ ThermalIdle

CalcIdle == AggIdle /\ DistIdle /\ ScoreIdle /\ GuardIdle

\* no telemetry collector is in use
TelIdle ==
    /\ collector_kind = "none"
    /\ max_history = 0
    /\ registered_devices = {}
    /\ current_metrics = EmptyMap
    /\ metrics_history = EmptyMap
    /\ inbox = <<>>
    /\ next_timestamp = 1
    /\ recorded_log = <<>>
    /\ last_outcome = "none"
    /\ last_read = <<>>
    /\ shutdown_phase = "none"
    /\ last_aggregate = <<>>

PlaceIdle ==
    /\ topology = [edges |-> {}, rdma |-> {}]
    /\ node_memory = [n \in Nodes |-> 1]
    /\ required_nodes = {}
    /\ command = NoCommand
    /\ current_instances = EmptyMap
    /\ ppc = "idle"
    /\ cycles_with_sufficient_memory = {}
    /\ selected_cycle = <<>>
    /\ target_instances = EmptyMap
    /\ perror = "none"

SolveIdle ==
    /\ devices = <<>>
    /\ device_scores = <<>>
    /\ shard_sizes = <<>>
    /\ num_shards = 0
    /\ timeout_positive = TRUE
    /\ pc = "idle"
    /\ mode = "idle"
    /\ stack = <<>>
    /\ ret = FALSE
    /\ assignment = EmptyMap
    /\ domains = EmptyMap
    /\ shard_order = <<>>
    /\ gpos = 1
    /\ device_remaining_memory = EmptyMap
    /\ result = EmptyMap
    /\ source = "none"
    /\ error = "none"
    /\ timer_expired = FALSE
    /\ cancel_requested = FALSE
    /\ steps_after_cancel = 0

InitPlace ==
    /\ SolveIdle
    /\ InstIdle
    /\ CalcIdle
    /\ TelIdle
    /\ \E links \in LinkSets, r \in RdmaNodeChoices :
          topology = [edges |-> EdgesOf(links),
                      rdma |-> {e \in EdgesOf(links) : e[1] \in r /\ e[2] \in r}]
    /\ node_memory \in [Nodes -> RamVals]
    /\ required_nodes \in RequiredChoices
    /\ \E mn \in 1..MaxNodes, sh \in {"Pipeline", "Tensor"},
          meta \in {"MlxRing", "MlxJaccl"}, card \in ModelCards :
          command = [min_nodes |-> mn, sharding |-> sh, instance_meta |-> meta,
                     model_card |-> card]
    /\ current_instances = (1 :> ExistingInstance)
    /\ ppc = "start"
    /\ cycles_with_sufficient_memory = {}
    /\ selected_cycle = <<>>
    /\ target_instances = EmptyMap
    /\ perror = "none"

\* lines 152-166: min_nodes, required_nodes and memory filters
FilterCycles ==
    /\ ppc = "start"
    /\ LET cycles == GetCycles(topology)
           candidate_cycles ==
               RequiredNodesFilter(MinNodesFilter(cycles, command.min_nodes), required_nodes)
           kept == FilterCyclesByMemory(candidate_cycles, node_memory,
                                        command.model_card.storage_size)
       IN /\ cycles_with_sufficient_memory' = kept
          /\ IF kept = {}
             THEN ppc' = "raised" /\ perror' = "No cycles found with sufficient memory"
             ELSE ppc' = "filtered" /\ perror' = perror
    /\ UNCHANGED <<csp_vars, inst_vars, tel_vars, calc_vars>>
    /\ UNCHANGED <<topology, node_memory, required_nodes, command, current_instances,
                   selected_cycle, target_instances>>

\* lines 168-188: the tensor filter and the pipeline exclusion
CheckSharding ==
    /\ ppc = "filtered"
    /\ IF command.sharding = "Tensor" /\ ~command.model_card.supports_tensor
       THEN /\ ppc' = "raised"
            /\ perror' = "model does not support tensor parallelism"
            /\ UNCHANGED cycles_with_sufficient_memory
       ELSE LET kept == IF command.sharding = "Tensor"
                        THEN TensorFilter(cycles_with_sufficient_memory,
                                          command.model_card.hidden_size)
                        ELSE cycles_with_sufficient_memory
            IN /\ cycles_with_sufficient_memory' = kept
               /\ IF command.sharding = "Tensor" /\ kept = {}
                  THEN ppc' = "raised" /\ perror' = "No tensor sharding found"
                  ELSE IF /\ command.sharding = "Pipeline"
                          /\ command.model_card.model_id = "mlx-community/DeepSeek-V3.1-8bit"
                  THEN ppc' = "raised" /\ perror' = "Pipeline parallelism is not supported"
                  ELSE ppc' = "sharded" /\ perror' = perror
    /\ UNCHANGED <<csp_vars, inst_vars, tel_vars, calc_vars>>
    /\ UNCHANGED <<topology, node_memory, required_nodes, command, current_instances,
                   selected_cycle, target_instances>>

\* lines 190-211: smallest cycles, RDMA restriction, leaf preference, max RAM
SelectCycle ==
    /\ ppc = "sharded"
    /\ selected_cycle' \in
          MaxRamCycles(SelectionCandidates(topology, command, cycles_with_sufficient_memory),
                       node_memory)
    /\ ppc' = "selected"
    /\ UNCHANGED <<csp_vars, inst_vars, tel_vars, calc_vars>>
    /\ UNCHANGED <<topology, node_memory, required_nodes, command, current_instances,
                   cycles_with_sufficient_memory, target_instances, perror>>

\* lines 213-259: the instance is built and added to a copy of current_instances
BuildInstance ==
    /\ ppc = "selected"
    /\ LET instance_id == FreshInstanceId(current_instances)
           meta == IF Len(selected_cycle) = 1 THEN "MlxRing" ELSE command.instance_meta
           shard_assignments ==
               GetShardAssignments(command.model_card, selected_cycle,
                                   command.sharding, node_memory)
       IN /\ command' = [command EXCEPT !.instance_meta = meta]
          /\ target_instances' =
                (instance_id :> [instance_id |-> instance_id, kind |-> meta,
                                 nodes |-> selected_cycle,
                                 shard_assignments |-> shard_assignments])
                    @@ current_instances
    /\ ppc' = "placed"
    /\ UNCHANGED <<csp_vars, inst_vars, tel_vars, calc_vars>>
    /\ UNCHANGED <<topology, node_memory, required_nodes, current_instances,
                   cycles_with_sufficient_memory, selected_cycle, perror>>

\* --- delete_instance
\* the instance a mapping given to the master holds under an id
InstanceOf(id) ==
    [instance_id |-> id, kind |-> "MlxRing", nodes |-> <<1>>, shard_assignments |-> (0 :> 1)]

InstanceMaps == {[i \in ids |-> InstanceOf(i)] : ids \in SUBSET (1..MaxInstances)}

\* DeleteFrom that deletes nothing
DeleteFromNothing(target, id) == target

\* del target_instances[command.instance_id]
DeleteFrom(target, id) == [j \in DOMAIN target \ {id} |-> target[j]]

\* one call of delete_instance, on the mapping the master holds: the one
\* place_instance returned once it has, else current_instances
DeleteInstance ==
    /\ dpc = "idle"
    /\ ppc \in {"start", "placed", "raised"}
    /\ \E id \in 1..(MaxInstances + 1) :
          LET given == IF ppc = "placed" THEN target_instances ELSE current_instances
          IN /\ dcommand' = id
             /\ dgiven' = given
             /\ IF id \in DOMAIN given
                THEN dresult' = DeleteFrom(given, id) /\ dpc' = "done"
                ELSE dresult' = dresult /\ dpc' = "raised"
    /\ UNCHANGED <<csp_vars, place_vars, tel_vars, calc_vars>>
    /\ UNCHANGED <<epc, efrom, eto, events>>

\* --- get_transition_events
\* the orders a dict of these keys can be iterated in
Orderings(S) ==
    {s \in [1..Cardinality(S) -> S] : \A i, j \in 1..Cardinality(S) : i # j => s[i] # s[j]}

InstanceCreated(instance) == [type |-> "InstanceCreated", instance |-> instance]
InstanceDeleted(id) == [type |-> "InstanceDeleted", instance_id |-> id]

\* TransitionEvents without the second loop
TransitionEventsCreatedOnly(cur, tgt) ==
    {[k \in 1..Len(c) |-> InstanceCreated(tgt[c[k]])] :
        c \in Orderings(DOMAIN tgt \ DOMAIN cur)}

\* the lists get_transition_events can return: the created instances in the
\* iteration order of target_instances, then the deleted ids in that of
\* current_instances
TransitionEvents(cur, tgt) ==
    {[k \in 1..(Len(c) + Len(d)) |->
        IF k <= Len(c) THEN InstanceCreated(tgt[c[k]])
        ELSE InstanceDeleted(d[k - Len(c)])] :
        c \in Orderings(DOMAIN tgt \ DOMAIN cur),
        d \in Orderings(DOMAIN cur \ DOMAIN tgt)}

\* the mappings the master has at hand
KnownMappings ==
    {current_instances}
        \cup (IF ppc = "placed" THEN {target_instances} ELSE {})
        \cup (IF dpc = "done" THEN {dresult} ELSE {})

\* one call of get_transition_events on two of the mappings at hand
GetTransitionEvents ==
    /\ epc = "idle"
    /\ ppc \in {"start", "placed", "raised"}
    /\ \E cur \in KnownMappings, tgt \in KnownMappings :
          /\ efrom' = cur
          /\ eto' = tgt
          /\ events' \in TransitionEvents(cur, tgt)
    /\ epc' = "done"
    /\ UNCHANGED <<csp_vars, place_vars, tel_vars, calc_vars>>
    /\ UNCHANGED <<dpc, dcommand, dgiven, dresult>>

\* an event applied to the instances of the cluster state
ApplyEvent(instances, e) ==
    IF e.type = "InstanceCreated"
    THEN (e.instance.instance_id :> e.instance) @@ instances
    ELSE [j \in DOMAIN instances \ {e.instance_id} |-> instances[j]]

RECURSIVE ApplyEvents(_, _)
ApplyEvents(instances, es) ==
    IF es = <<>> THEN instances
    ELSE ApplyEvents(ApplyEvent(instances, Head(es)), Tail(es))

\* the master holds some instances; a request is placed on a cluster without
\* links or on the full ring, instances are deleted, transitions computed
InitInstances ==
    /\ SolveIdle
    /\ InstIdle
    /\ CalcIdle
    /\ TelIdle
    /\ \E links \in {{}, RingLinks} :
          topology = [edges |-> EdgesOf(links), rdma |-> {}]
    /\ node_memory = [n \in Nodes |-> 1]
    /\ required_nodes = {}
    /\ \E mn \in {1, 2}, meta \in {"MlxRing", "MlxJaccl"},
          card \in {m \in ModelCards : m.model_id \in {"model-a", "model-b"}} :
          command = [min_nodes |-> mn, sharding |-> "Pipeline", instance_meta |-> meta,
                     model_card |-> card]
    /\ current_instances \in InstanceMaps
    /\ ppc = "start"
    /\ cycles_with_sufficient_memory = {}
    /\ selected_cycle = <<>>
    /\ target_instances = EmptyMap
    /\ perror = "none"

\* ---------------------------------------------------- telemetry (exo.gpu)
\* the largest max_history a collector is built with
MaxHistory == 2
\* the record_metrics calls received in a run
MaxRecords == 3
\* the record_metrics calls received and not yet run
MaxPending == 2

\* default of max_history
DefaultMaxHistory == 100
\* -273.15 degrees Celsius; temperatures are in hundredths of a degree
AbsoluteZero == -27315

TelemetryDeviceIds == {"cuda:0", "cuda:1"}

\* the fields of a GPUMetrics that record_metrics reads, apart from the
\* device id and the timestamp
Nominal ==
    [memory_used_bytes |-> 1, memory_total_bytes |-> 2,
     compute_utilization_percent |-> 50, temperature_celsius |-> 6500]

\* every bound of the validation at its edge and just beyond it
Readings ==
    { Nominal,
      [Nominal EXCEPT !.memory_used_bytes = 2,
                      !.compute_utilization_percent = 100,
                      !.temperature_celsius = AbsoluteZero],
      [Nominal EXCEPT !.memory_used_bytes = 0,
                      !.compute_utilization_percent = 0],
      [Nominal EXCEPT !.compute_utilization_percent = 101],
      [Nominal EXCEPT !.compute_utilization_percent = -1],
      [Nominal EXCEPT !.memory_used_bytes = -1],
      [Nominal EXCEPT !.memory_used_bytes = 3],
      [Nominal EXCEPT !.memory_used_bytes = 0, !.memory_total_bytes = 0],
      [Nominal EXCEPT !.temperature_celsius = AbsoluteZero - 1] }

GPUMetrics(device_id, timestamp, reading) ==
    [device_id |-> device_id,
     timestamp |-> timestamp,
     memory_used_bytes |-> reading.memory_used_bytes,
     memory_total_bytes |-> reading.memory_total_bytes,
     compute_utilization_percent |-> reading.compute_utilization_percent,
     temperature_celsius |-> reading.temperature_celsius]

\* a[start:] of a Python list: a negative start counts from the end, and
\* -0 is 0, the whole list
PySliceFrom(a, start) ==
    LET from == IF start < 0
                THEN (IF Len(a) + start > 0 THEN Len(a) + start ELSE 0)
                ELSE Min(start, Len(a))
    IN SubSeq(a, from + 1, Len(a))

\* dict.get(device_id, []) on the histories
HistoryOf(history, device_id) ==
    IF device_id \in DOMAIN history THEN history[device_id] ELSE <<>>

\* TelemetryCollector.record_metrics: append, then trim with a slice
AppendTrimmed(history, metrics, maxh) ==
    LET appended == Append(history, metrics)
    IN IF Len(appended) > maxh THEN PySliceFrom(appended, -maxh) ELSE appended

\* deque(maxlen).append: a full deque drops its oldest entry
AppendDeque(history, metrics, maxlen) ==
    IF maxlen = 0 THEN <<>>
    ELSE IF Len(history) = maxlen THEN Append(Tail(history), metrics)
    ELSE Append(history, metrics)

SetCurrentIfAbsent(current, metrics) == current @@ (metrics.device_id :> metrics)

\* self._current_metrics[device_id] = metrics
SetCurrent(current, metrics) == (metrics.device_id :> metrics) @@ current

RecordMetricsCheckAcceptsAll(registered, metrics) == "ok"

\* the checks of GPUClusteringManagerImproved.record_metrics, in their order
RecordMetricsCheck(registered, metrics) ==
    IF metrics.device_id \notin registered THEN "KeyError"
    ELSE IF ~(0 <= metrics.compute_utilization_percent
              /\ metrics.compute_utilization_percent <= 100) THEN "ValueError"
    ELSE IF metrics.memory_used_bytes < 0 THEN "ValueError"
    ELSE IF metrics.memory_total_bytes <= 0 THEN "ValueError"
    ELSE IF metrics.memory_used_bytes > metrics.memory_total_bytes THEN "ValueError"
    ELSE IF metrics.temperature_celsius < AbsoluteZero THEN "ValueError"
    ELSE "ok"

\* get_metrics: the current snapshot, or none (the empty sequence)
GetMetrics(current, device_id) ==
    IF device_id \in DOMAIN current THEN <<current[device_id]>> ELSE <<>>

\* get_metrics_history
GetMetricsHistory(history, device_id) == HistoryOf(history, device_id)

CollectorKinds ==
    {"TelemetryCollector", "TelemetryCollectorImproved",
     "GPUClusteringManagerImproved"}

ManagerKinds == {"GPUClusteringManager", "GPUClusteringManagerImproved"}

\* the classes whose list history is trimmed with a slice
ListHistoryKinds == {"TelemetryCollector", "GPUClusteringManager"}

\* the readings sent to a bare collector, which reads none of them, and to
\* the manager, which validates them
ReadingsFor(kind) ==
    IF kind = "GPUClusteringManagerImproved" THEN Readings ELSE {Nominal}

\* a collector, or a manager and its collector, has just been constructed
InitTelemetry ==
    /\ SolveIdle
    /\ PlaceIdle
    /\ InstIdle
    /\ CalcIdle
    /\ collector_kind \in CollectorKinds
    /\ max_history \in
          CASE collector_kind = "TelemetryCollector" -> 0..MaxHistory
            [] collector_kind = "TelemetryCollectorImproved" -> 1..MaxHistory
            [] OTHER -> {DefaultMaxHistory}
    /\ registered_devices = {}
    /\ current_metrics = EmptyMap
    /\ metrics_history = EmptyMap
    /\ inbox = <<>>
    /\ next_timestamp = 1
    /\ recorded_log = <<>>
    /\ last_outcome = "none"
    /\ last_read = <<>>
    /\ shutdown_phase = "none"
    /\ last_aggregate = <<>>

\* CheckInitialized without its test of the shutdown event
CheckInitializedOnly(kind, phase) ==
    IF kind = "GPUClusteringManagerImproved" /\ phase = "complete"
    THEN "RuntimeError"
    ELSE "ok"

\* _check_initialized of GPUClusteringManagerImproved: shutdown sets the event
\* at its start and clears _initialized at its end; the other classes have no
\* such check
CheckInitialized(kind, phase) ==
    IF kind = "GPUClusteringManagerImproved" /\ phase # "none"
    THEN "RuntimeError"
    ELSE "ok"

\* register_device of a manager; GPUClusteringManagerImproved raises once its
\* shutdown has begun
RegisterDevice ==
    /\ collector_kind \in ManagerKinds
    /\ LET outcome == CheckInitialized(collector_kind, shutdown_phase)
       IN /\ last_outcome' = outcome
          /\ IF outcome = "ok"
             THEN \E device_id \in TelemetryDeviceIds \ registered_devices :
                     registered_devices' = registered_devices \cup {device_id}
             ELSE registered_devices' = registered_devices
    /\ UNCHANGED <<collector_kind, max_history, current_metrics, metrics_history,
                   inbox, next_timestamp, recorded_log, last_read,
                   shutdown_phase, last_aggregate>>
    /\ UNCHANGED <<csp_vars, place_vars, inst_vars, calc_vars>>

\* a task calls record_metrics: the call joins the event loop's ready queue;
\* the snapshot's timestamp is its number in the order of receipt
ReceiveMetrics ==
    /\ collector_kind \in CollectorKinds \cup ManagerKinds
    /\ next_timestamp <= MaxRecords
    /\ Len(inbox) < MaxPending
    /\ \E device_id \in TelemetryDeviceIds, reading \in ReadingsFor(collector_kind) :
          inbox' = Append(inbox, GPUMetrics(device_id, next_timestamp, reading))
    /\ next_timestamp' = next_timestamp + 1
    /\ UNCHANGED <<collector_kind, max_history, registered_devices, current_metrics,
                   metrics_history, recorded_log, last_outcome, last_read,
                   shutdown_phase, last_aggregate>>
    /\ UNCHANGED <<csp_vars, place_vars, inst_vars, calc_vars>>

\* the event loop runs the oldest ready call of record_metrics to its end:
\* the body has no await that suspends (the manager's lock is free whenever
\* a call reaches it), so nothing runs between its first and last statement
RecordMetrics ==
    /\ collector_kind \in CollectorKinds \cup ManagerKinds
    /\ inbox # <<>>
    /\ LET metrics == Head(inbox)
           device_id == metrics.device_id
           outcome == IF collector_kind # "GPUClusteringManagerImproved" THEN "ok"
                      ELSE IF CheckInitialized(collector_kind, shutdown_phase) # "ok"
                      THEN "RuntimeError"
                      ELSE RecordMetricsCheck(registered_devices, metrics)
           history == HistoryOf(metrics_history, device_id)
           appended == IF collector_kind \in ListHistoryKinds
                       THEN AppendTrimmed(history, metrics, max_history)
                       ELSE AppendDeque(history, metrics, max_history)
       IN /\ inbox' = Tail(inbox)
          /\ last_outcome' = outcome
          /\ IF outcome = "ok"
             THEN /\ current_metrics' = SetCurrent(current_metrics, metrics)
                  /\ metrics_history' = (device_id :> appended) @@ metrics_history
                  /\ recorded_log' = Append(recorded_log, metrics)
             ELSE UNCHANGED <<current_metrics, metrics_history, recorded_log>>
    /\ UNCHANGED <<collector_kind, max_history, registered_devices, next_timestamp,
                   last_read, shutdown_phase, last_aggregate>>
    /\ UNCHANGED <<csp_vars, place_vars, inst_vars, calc_vars>>

\* a reader task calls get_metrics and get_metrics_history for one device
ReadMetrics ==
    /\ collector_kind \in CollectorKinds
    /\ \E device_id \in TelemetryDeviceIds :
          last_read' = <<[device_id |-> device_id,
                          current |-> GetMetrics(current_metrics, device_id),
                          history |-> GetMetricsHistory(metrics_history, device_id)]>>
    /\ UNCHANGED <<collector_kind, max_history, registered_devices, current_metrics,
                   metrics_history, inbox, next_timestamp, recorded_log, last_outcome,
                   shutdown_phase, last_aggregate>>
    /\ UNCHANGED <<csp_vars, place_vars, inst_vars, calc_vars>>

\* TelemetryCollector.get_aggregated_metrics: the empty dict when no device
\* has a snapshot; "counted" names the devices the sums run over
AggregatedMetrics(current) ==
    LET counted == DOMAIN current
        total_memory == SumOver(counted, [d \in counted |-> current[d].memory_total_bytes])
        used_memory == SumOver(counted, [d \in counted |-> current[d].memory_used_bytes])
    IN [raised |-> "none",
        empty |-> counted = {},
        counted |-> counted,
        device_count |-> Cardinality(counted),
        total_memory_bytes |-> total_memory,
        used_memory_bytes |-> used_memory,
        available_memory_bytes |-> total_memory - used_memory]

\* the call ended with an exception
AggregateRaised(exception) ==
    [raised |-> exception, empty |-> FALSE, counted |-> {}, device_count |-> 0,
     total_memory_bytes |-> 0, used_memory_bytes |-> 0, available_memory_bytes |-> 0]

\* get_aggregated_metrics of a manager: self._telemetry.get_aggregated_metrics(),
\* where GPUClusteringManagerImproved.shutdown has set self._telemetry to None
GetAggregated(kind, phase, current) ==
    IF kind = "GPUClusteringManagerImproved" /\ phase = "complete"
    THEN AggregateRaised("AttributeError")
    ELSE AggregatedMetrics(current)

\* a caller reads the aggregate of a manager
GetAggregatedMetrics ==
    /\ collector_kind \in ManagerKinds
    /\ last_aggregate' = <<GetAggregated(collector_kind, shutdown_phase, current_metrics)>>
    /\ UNCHANGED <<collector_kind, max_history, registered_devices, current_metrics,
                   metrics_history, inbox, next_timestamp, recorded_log, last_outcome,
                   last_read, shutdown_phase>>
    /\ UNCHANGED <<csp_vars, place_vars, inst_vars, calc_vars>>

\* GPUClusteringManager.shutdown: no telemetry task and no backend is ever
\* set, so it runs to its end at once and clears the devices only; the
\* manager stays usable, the phase only records that the call returned
Shutdown ==
    /\ collector_kind = "GPUClusteringManager"
    /\ registered_devices' = {}
    /\ shutdown_phase' = "complete"
    /\ UNCHANGED <<collector_kind, max_history, current_metrics, metrics_history,
                   inbox, next_timestamp, recorded_log, last_outcome, last_read,
                   last_aggregate>>
    /\ UNCHANGED <<csp_vars, place_vars, inst_vars, calc_vars>>

\* GPUClusteringManagerImproved.shutdown up to its sleep: the event is set
ShutdownSignal ==
    /\ collector_kind = "GPUClusteringManagerImproved"
    /\ shutdown_phase = "none"
    /\ shutdown_phase' = "signalled"
    /\ UNCHANGED <<collector_kind, max_history, registered_devices, current_metrics,
                   metrics_history, inbox, next_timestamp, recorded_log, last_outcome,
                   last_read, last_aggregate>>
    /\ UNCHANGED <<csp_vars, place_vars, inst_vars, calc_vars>>

\* GPUClusteringManagerImproved.shutdown after its sleep: the telemetry is
\* cleared and dropped, the devices are cleared
ShutdownClear ==
    /\ collector_kind = "GPUClusteringManagerImproved"
    /\ shutdown_phase = "signalled"
    /\ shutdown_phase' = "complete"
    /\ current_metrics' = EmptyMap
    /\ metrics_history' = EmptyMap
    /\ registered_devices' = {}
    /\ UNCHANGED <<collector_kind, max_history, inbox, next_timestamp, recorded_log,
                   last_outcome, last_read, last_aggregate>>
    /\ UNCHANGED <<csp_vars, place_vars, inst_vars, calc_vars>>

\* a manager has just been constructed: its collector has the default history
InitManager ==
    /\ SolveIdle
    /\ PlaceIdle
    /\ InstIdle
    /\ CalcIdle
    /\ collector_kind \in ManagerKinds
    /\ max_history = DefaultMaxHistory
    /\ registered_devices = {}
    /\ current_metrics = EmptyMap
    /\ metrics_history = EmptyMap
    /\ inbox = <<>>
    /\ next_timestamp = 1
    /\ recorded_log = <<>>
    /\ last_outcome = "none"
    /\ last_read = <<>>
    /\ shutdown_phase = "none"
    /\ last_aggregate = <<>>


\* ------------------------------ GPUTelemetryAggregator (exo.shared)
\* the longest device list of a node
MaxNodeDevices == 2

\* a float that is the quotient of two integers
Fraction(n, d) == [num |-> n, den |-> d]

\* a / b: a zero denominator stands for the ZeroDivisionError it raises
Divide(a, b) == IF b = 0 THEN Fraction(0, 0) ELSE Fraction(a, b)

DivisionFailed(f) == f.den = 0

\* the nodes of devices_by_node
AggregatorNodeIds == {"node1", "node2"}

\* the fields of a GPUDevice that the aggregator reads: a large and a small
\* device, one without compute units and one without bandwidth
SampleDevices ==
    { [vendor |-> "nvidia", memory_bytes |-> 2, memory_available |-> 1,
       compute_units |-> 2, bandwidth_gbps |-> 2, clock_rate_mhz |-> 1],
      [vendor |-> "amd", memory_bytes |-> 1, memory_available |-> 1,
       compute_units |-> 1, bandwidth_gbps |-> 1, clock_rate_mhz |-> 1],
      [vendor |-> "apple", memory_bytes |-> 1, memory_available |-> 0,
       compute_units |-> 0, bandwidth_gbps |-> 1, clock_rate_mhz |-> 1],
      [vendor |-> "nvidia", memory_bytes |-> 1, memory_available |-> 1,
       compute_units |-> 1, bandwidth_gbps |-> 0, clock_rate_mhz |-> 2] }

\* the lists of at most n elements of S
ListsUpTo(S, n) == UNION {[1..k -> S] : k \in 0..n}

RECURSIVE Flatten(_)
\* the device lists of the nodes, one after the other
Flatten(lists) ==
    IF lists = <<>> THEN <<>> ELSE Head(lists) \o Flatten(Tail(lists))

\* sum(field of x for x in s)
SumField(s, field) == SumOver(1..Len(s), [i \in 1..Len(s) |-> s[i][field]])

SeqMin(s) == CHOOSE x \in SeqRange(s) : \A y \in SeqRange(s) : x <= y

SeqMax(s) == CHOOSE x \in SeqRange(s) : \A y \in SeqRange(s) : x >= y

AverageBandwidthUnguarded(bandwidths) ==
    Divide(SumOver(1..Len(bandwidths), bandwidths), Len(bandwidths))

\* avg_bandwidth
AverageBandwidth(bandwidths) ==
    IF bandwidths = <<>> THEN Fraction(0, 1)
    ELSE Divide(SumOver(1..Len(bandwidths), bandwidths), Len(bandwidths))

\* bottleneck
BottleneckBandwidth(bandwidths) ==
    IF bandwidths = <<>> THEN Fraction(0, 1) ELSE Fraction(SeqMin(bandwidths), 1)

\* compute_units * bandwidth_gbps * clock_rate_mhz / 1000.0, in thousandths
ComputeThousandths(d) == d.compute_units * d.bandwidth_gbps * d.clock_rate_mhz

\* heterogeneous_ratio: max over min of the devices' compute, 1.0 without
\* devices or when the least compute is not positive
HeterogeneousRatio(all_devices) ==
    IF all_devices # <<>>
    THEN LET compute_scores == [i \in 1..Len(all_devices) |->
                                    ComputeThousandths(all_devices[i])]
             max_compute == SeqMax(compute_scores)
             min_compute == SeqMin(compute_scores)
         IN IF min_compute > 0 THEN Divide(max_compute, min_compute)
            ELSE Fraction(1, 1)
    ELSE Fraction(1, 1)

\* vendor_counts
VendorCounts(all_devices) ==
    [v \in {all_devices[i].vendor : i \in 1..Len(all_devices)} |->
        Cardinality({i \in 1..Len(all_devices) : all_devices[i].vendor = v})]

\* the ClusterGPUMetrics that aggregate_cluster_metrics returns, or the
\* exception it raises
ClusterGPUMetrics(by_node) ==
    LET all_devices == Flatten(by_node)
        bandwidths == [i \in 1..Len(all_devices) |-> all_devices[i].bandwidth_gbps]
        avg_bandwidth == AverageBandwidth(bandwidths)
        heterogeneous_ratio == HeterogeneousRatio(all_devices)
    IN [raised |-> IF DivisionFailed(avg_bandwidth) \/ DivisionFailed(heterogeneous_ratio)
                   THEN "ZeroDivisionError" ELSE "none",
        total_devices |-> Len(all_devices),
        total_memory_bytes |-> SumField(all_devices, "memory_bytes"),
        total_available_memory |-> SumField(all_devices, "memory_available"),
        average_bandwidth_gbps |-> avg_bandwidth,
        bottleneck_bandwidth_gbps |-> BottleneckBandwidth(bandwidths),
        total_compute_units |-> SumField(all_devices, "compute_units"),
        heterogeneous_ratio |-> heterogeneous_ratio,
        device_count_by_vendor |-> VendorCounts(all_devices),
        devices |-> all_devices]

\* a caller holds the device lists of some nodes
InitAggregate ==
    /\ SolveIdle
    /\ PlaceIdle
    /\ InstIdle
    /\ TelIdle
    /\ GuardIdle
    /\ DistIdle
    /\ ScoreIdle
    /\ \E n \in 0..Cardinality(AggregatorNodeIds) :
          devices_by_node \in [1..n -> ListsUpTo(SampleDevices, MaxNodeDevices)]
    /\ cluster_metrics = <<>>

\* aggregate_cluster_metrics(devices_by_node)
AggregateClusterMetrics ==
    /\ cluster_metrics = <<>>
    /\ cluster_metrics' = <<ClusterGPUMetrics(devices_by_node)>>
    /\ UNCHANGED devices_by_node
    /\ UNCHANGED <<csp_vars, place_vars, inst_vars, tel_vars, dist_vars, score_vars,
                   guard_vars>>

\* ------------------- WorkloadDistributor, WorkloadDistributorImproved
\* the longest list of workload items
MaxItems == 4

\* device ids "cuda:0", "cuda:1", "cuda:2" by their number, which is also
\* their place in sorted order
DistDeviceIds == {0, 1, 2}

\* capacity weights: negative, zero and positive ones
WeightVals == {-1, 0, 1, 2}

DistributorKinds == {"WorkloadDistributor", "WorkloadDistributorImproved"}

\* a[start:stop] of a Python list, 0 <= start <= stop
PySlice(a, start, stop) == SubSeq(a, Min(start, Len(a)) + 1, Min(stop, Len(a)))

\* int(a / b) for b # 0: the quotient truncated toward zero
TruncDiv(a, b) ==
    IF (a >= 0 /\ b > 0) \/ (a <= 0 /\ b < 0)
    THEN (IF a >= 0 THEN a ELSE -a) \div (IF b >= 0 THEN b ELSE -b)
    ELSE -((IF a >= 0 THEN a ELSE -a) \div (IF b >= 0 THEN b ELSE -b))

Max(a, b) == IF a >= b THEN a ELSE b

\* the dict a call returned
Distributed(chunks) == [raised |-> "none", chunks |-> chunks]

\* the call raised
DistributeRaised(exception) == [raised |-> exception, chunks |-> EmptyMap]

\* count of distribute_uniform for the device at index i (from 0)
UniformCount(n_devices, n_items, maxper, i) ==
    LET items_per_device == n_items \div n_devices
        remainder == n_items % n_devices
        count == items_per_device + (IF i < remainder THEN 1 ELSE 0)
    IN IF maxper # <<>> THEN Min(count, maxper[1]) ELSE count

\* the loop of distribute_uniform: the chunk of each device is the slice
\* assigned at its last place in the list
UniformChunks(devs, items, maxper) ==
    LET count(i) == UniformCount(Len(devs), Len(items), maxper, i)
        item_idx(i) == SumOver(0..(i - 1), [j \in 0..(i - 1) |-> count(j)])
        last(d) == CHOOSE i \in 0..(Len(devs) - 1) :
                      /\ devs[i + 1] = d
                      /\ \A j \in (i + 1)..(Len(devs) - 1) : devs[j + 1] # d
    IN [d \in SeqRange(devs) |->
            PySlice(items, item_idx(last(d)), item_idx(last(d)) + count(last(d)))]

\* distribute_uniform of either class
DistributeUniform(kind, devs, items, maxper) ==
    IF kind = "WorkloadDistributorImproved" /\ devs = <<>>
    THEN Distributed(EmptyMap)
    ELSE IF kind = "WorkloadDistributorImproved" /\ maxper # <<>> /\ maxper[1] <= 0
    THEN DistributeRaised("ValueError")
    ELSE IF devs = <<>> \/ items = <<>>
    THEN Distributed([d \in SeqRange(devs) |-> <<>>])
    ELSE Distributed(UniformChunks(devs, items, maxper))

\* capacities[device_id]
WeightOf(caps, d) == (CHOOSE c \in SeqRange(caps) : c.device_id = d).weight

CapacityKeys(caps) == {caps[i].device_id : i \in 1..Len(caps)}

TotalCapacity(caps) == SumField(caps, "weight")

\* count = max(1, int(len(workload_items) * proportion))
ShareCount(n_items, capacity, total_capacity) ==
    Max(1, TruncDiv(n_items * capacity, total_capacity))

\* max(capacities.keys(), key=...): the first key of the largest weight
LargestDevice(caps) ==
    caps[CHOOSE i \in 1..Len(caps) :
            /\ \A j \in 1..Len(caps) : caps[j].weight <= caps[i].weight
            /\ \A j \in 1..(i - 1) : caps[j].weight < caps[i].weight].device_id

\* the loop of distribute_by_capacity over the sorted keys, then the rest of
\* the items for the largest device
CapacityChunks(caps, items) ==
    LET keys == CapacityKeys(caps)
        total_capacity == TotalCapacity(caps)
        count(d) == ShareCount(Len(items), WeightOf(caps, d), total_capacity)
        before(d) == {e \in keys : e < d}
        item_idx(d) == SumOver(before(d), [e \in before(d) |-> count(e)])
        assigned == SumOver(keys, [e \in keys |-> count(e)])
        rest == IF assigned < Len(items) THEN PySlice(items, assigned, Len(items))
                ELSE <<>>
    IN [d \in keys |->
            PySlice(items, item_idx(d), item_idx(d) + count(d))
                \o (IF d = LargestDevice(caps) THEN rest ELSE <<>>)]

\* the validation of WorkloadDistributorImproved.distribute_by_capacity, and
\* the division by a zero total of both classes
CapacityRejected(kind, caps) ==
    IF kind = "WorkloadDistributorImproved"
          /\ \E i \in 1..Len(caps) : caps[i].weight < 0
    THEN "ValueError"
    ELSE IF kind = "WorkloadDistributorImproved" /\ TotalCapacity(caps) <= 0
    THEN "ValueError"
    ELSE IF TotalCapacity(caps) = 0 THEN "ZeroDivisionError"
    ELSE "none"

\* distribute_by_capacity of either class
DistributeByCapacity(kind, caps, items) ==
    IF caps = <<>> \/ items = <<>>
    THEN Distributed([d \in CapacityKeys(caps) |-> <<>>])
    ELSE IF CapacityRejected(kind, caps) # "none"
    THEN DistributeRaised(CapacityRejected(kind, caps))
    ELSE Distributed(CapacityChunks(caps, items))

\* the lists of distinct elements of S
DistinctLists(S) ==
    {s \in ListsUpTo(S, Cardinality(S)) : \A i, j \in 1..Len(s) : i # j => s[i] # s[j]}

\* a caller holds a distributor and the arguments of one call
InitDistribute ==
    /\ SolveIdle
    /\ PlaceIdle
    /\ InstIdle
    /\ TelIdle
    /\ GuardIdle
    /\ AggIdle
    /\ ScoreIdle
    /\ distributor \in DistributorKinds
    /\ strategy \in {"uniform", "capacity"}
    /\ \E n \in 0..MaxItems : workload_items = [i \in 1..n |-> i]
    /\ IF strategy = "uniform"
       THEN /\ device_list \in ListsUpTo(DistDeviceIds, Cardinality(DistDeviceIds))
            /\ max_per_device \in {<<>>, <<0>>, <<1>>}
            /\ capacities = <<>>
       ELSE /\ device_list = <<>>
            /\ max_per_device = <<>>
            /\ \E ids \in DistinctLists(DistDeviceIds) :
                  \E weights \in [1..Len(ids) -> WeightVals] :
                     capacities = [i \in 1..Len(ids) |->
                                     [device_id |-> ids[i], weight |-> weights[i]]]
    /\ distribution = <<>>

\* distribute_uniform(devices, workload_items, max_per_device)
DistributeUniformCall ==
    /\ strategy = "uniform"
    /\ distribution = <<>>
    /\ distribution' = <<DistributeUniform(distributor, device_list, workload_items,
                                           max_per_device)>>
    /\ UNCHANGED <<distributor, strategy, device_list, max_per_device, capacities,
                   workload_items>>
    /\ UNCHANGED <<csp_vars, place_vars, inst_vars, tel_vars, agg_vars, score_vars,
                   guard_vars>>

\* distribute_by_capacity(capacities, workload_items)
DistributeByCapacityCall ==
    /\ strategy = "capacity"
    /\ distribution = <<>>
    /\ distribution' = <<DistributeByCapacity(distributor, capacities, workload_items)>>
    /\ UNCHANGED <<distributor, strategy, device_list, max_per_device, capacities,
                   workload_items>>
    /\ UNCHANGED <<csp_vars, place_vars, inst_vars, tel_vars, agg_vars, score_vars,
                   guard_vars>>

\* --------------------------------------------------- the device scorers
\* the longest device list a scorer is given
MaxScored == 2

\* reference_flops = 1500e12 over the 1e6 of device_flops: the product
\* compute_units * clock_rate_mhz of the reference device
ReferenceFlops == 1500000000

\* the 80 GB reference of the memory score, memory counted in GiB
ReferenceMemory == 80

\* thermal_throttle_threshold_c of a DeviceGPUState
DefaultThrottleThreshold == 85

RECURSIVE GCD(_, _)
GCD(a, b) == IF b = 0 THEN a ELSE GCD(b, a % b)

\* n / d for n >= 0 and d > 0, in lowest terms
Reduced(n, d) == LET g == GCD(n, d) IN Fraction(n \div g, d \div g)

\* n / d without the min(1.0, ...) around it
UnclampedRatio(n, d) == Reduced(n, d)

\* min(1.0, n / d) for n >= 0 and d > 0
ClampedRatio(n, d) == IF n >= d THEN Fraction(1, 1) ELSE Reduced(n, d)

\* a + b and a * b of two floats
FracAdd(a, b) == Reduced(a.num * b.den + b.num * a.den, a.den * b.den)

FracTimes(a, b) == Reduced(a.num * b.num, a.den * b.den)

\* compute * 0.40 + memory * 0.30 + network * 0.15 + thermal * 0.10
\* + bandwidth * 0.05 of a GPUDeviceScore of placement_csp
weighted_score(compute, memory, network, thermal, bandwidth) ==
    FracAdd(FracAdd(FracAdd(FracAdd(FracTimes(compute, Fraction(2, 5)),
                                    FracTimes(memory, Fraction(3, 10))),
                            FracTimes(network, Fraction(3, 20))),
                    FracTimes(thermal, Fraction(1, 10))),
            FracTimes(bandwidth, Fraction(1, 20)))

\* GPUDeviceScore(...) of placement_csp, with its weighted_score property
CspDeviceScore(device_id, compute, memory, network, thermal, bandwidth) ==
    [device_id |-> device_id, compute_score |-> compute, memory_score |-> memory,
     network_score |-> network, thermal_score |-> thermal,
     bandwidth_score |-> bandwidth,
     weighted_score |-> weighted_score(compute, memory, network, thermal, bandwidth)]

\* the scorers returned, or raised
Scored(scores) == [raised |-> "none", scores |-> scores]

ScoringRaised(exception) == [raised |-> exception, scores |-> <<>>]

\* --- compute_device_scores of placement_csp
\* the devices whose id has "mobile" in its lower case
MobileDeviceIds == {"mobile:0", "Mobile:1"}

\* devices for compute_device_scores, memory in GiB: at, over and under the
\* reference figures, and mobile ones
CspSampleDevices ==
    { [device_id |-> "cuda:0", compute_units |-> 20000, clock_rate_mhz |-> 100000,
       memory_available |-> 160],
      [device_id |-> "cuda:1", compute_units |-> 15000, clock_rate_mhz |-> 50000,
       memory_available |-> 40],
      [device_id |-> "cuda:2", compute_units |-> 15000, clock_rate_mhz |-> 100000,
       memory_available |-> 20],
      [device_id |-> "mobile:0", compute_units |-> 20000, clock_rate_mhz |-> 50000,
       memory_available |-> 80],
      [device_id |-> "Mobile:1", compute_units |-> 0, clock_rate_mhz |-> 1500,
       memory_available |-> 0] }

\* the score of one device in the loop of compute_device_scores
CspScoreOf(device) ==
    CspDeviceScore(device.device_id,
        ClampedRatio(device.compute_units * device.clock_rate_mhz, ReferenceFlops),
        ClampedRatio(device.memory_available, ReferenceMemory),
        Fraction(4, 5),
        IF device.device_id \in MobileDeviceIds THEN Fraction(7, 10) ELSE Fraction(1, 1),
        Fraction(1, 1))

RECURSIVE LCMOfDens(_)
\* a common denominator of a list of floats
LCMOfDens(fs) ==
    IF fs = <<>> THEN 1
    ELSE LET rest == LCMOfDens(Tail(fs))
         IN (Head(fs).den \div GCD(Head(fs).den, rest)) * rest

\* sorted(scores, key=lambda s: s.weighted_score, reverse=True)
SortedByWeightedScore(scores) ==
    LET common == LCMOfDens([i \in 1..Len(scores) |-> scores[i].weighted_score])
        key == [i \in 1..Len(scores) |->
                   scores[i].weighted_score.num
                       * (common \div scores[i].weighted_score.den)]
        order == StableSortDesc([i \in 1..Len(scores) |-> i], key)
    IN [k \in 1..Len(scores) |-> scores[order[k]]]

ComputeDeviceScores(devs) ==
    Scored(SortedByWeightedScore([i \in 1..Len(devs) |-> CspScoreOf(devs[i])]))

\* --- _compute_device_scores of placement
\* cycle_node_ids
CycleNodeIds == {"node1"}

\* the DeviceGPUState values of gpu_device_state, memory in GiB: full to empty
\* devices, idle to busy, cool to hot, one without a temperature reading
\* and one of a node outside the cycle
SampleDeviceStates ==
    { [device_id |-> "cuda:0", node_id |-> "node1", memory_used_bytes |-> 0,
       memory_total_bytes |-> 4, compute_utilization_percent |-> 0,
       thermal_temperature_c |-> -1],
      [device_id |-> "cuda:1", node_id |-> "node1", memory_used_bytes |-> 1,
       memory_total_bytes |-> 4, compute_utilization_percent |-> 50,
       thermal_temperature_c |-> 70],
      [device_id |-> "cuda:2", node_id |-> "node1", memory_used_bytes |-> 2,
       memory_total_bytes |-> 4, compute_utilization_percent |-> 100,
       thermal_temperature_c |-> 82],
      [device_id |-> "cuda:3", node_id |-> "node1", memory_used_bytes |-> 3,
       memory_total_bytes |-> 4, compute_utilization_percent |-> 25,
       thermal_temperature_c |-> 90],
      [device_id |-> "cuda:4", node_id |-> "node1", memory_used_bytes |-> 4,
       memory_total_bytes |-> 4, compute_utilization_percent |-> 100,
       thermal_temperature_c |-> 80],
      [device_id |-> "metal:0", node_id |-> "node2", memory_used_bytes |-> 0,
       memory_total_bytes |-> 4, compute_utilization_percent |-> 0,
       thermal_temperature_c |-> 60] }

\* DeviceGPUState.memory_available_bytes
MemoryAvailableBytes(dev_state) ==
    Max(0, dev_state.memory_total_bytes - dev_state.memory_used_bytes)

\* the memory score with the required size itself counted as not enough
MemoryFitStrict(memory_available, shard_size_bytes) ==
    IF memory_available <= shard_size_bytes THEN Fraction(0, 1)
    ELSE IF memory_available >= shard_size_bytes * 2 THEN Fraction(1, 1)
    ELSE Reduced(memory_available, shard_size_bytes * 2)

\* memory_score of _compute_device_scores
MemoryFit(memory_available, shard_size_bytes) ==
    IF memory_available < shard_size_bytes THEN Fraction(0, 1)
    ELSE IF memory_available >= shard_size_bytes * 2 THEN Fraction(1, 1)
    ELSE Reduced(memory_available, shard_size_bytes * 2)

\* compute_score = max(0.0, 1.0 - compute_utilization_percent / 100.0)
IdleShare(utilization) ==
    IF utilization >= 100 THEN Fraction(0, 1) ELSE Reduced(100 - utilization, 100)

\* thermal_score of _compute_device_scores
ThermalHeadroom(dev_state) ==
    LET thermal_margin == DefaultThrottleThreshold - dev_state.thermal_temperature_c
    IN IF thermal_margin < 0 THEN Fraction(0, 1)
       ELSE IF thermal_margin < 5 THEN Fraction(3, 10)
       ELSE ClampedRatio(thermal_margin, 20)

OrchestratorScoreOf(dev_state, shard_size_bytes) ==
    CspDeviceScore(dev_state.device_id,
        IdleShare(dev_state.compute_utilization_percent),
        MemoryFit(MemoryAvailableBytes(dev_state), shard_size_bytes),
        Fraction(1, 1),
        ThermalHeadroom(dev_state),
        Fraction(1, 1))

\* _compute_device_scores(cycle_node_ids, gpu_device_state, shard_size_bytes,
\* topology): the devices of the cycle's nodes, in the order of the mapping
OrchestratorDeviceScores(dev_states, shard_size_bytes) ==
    LET in_cycle == SelectSeq(dev_states, LAMBDA s : s.node_id \in CycleNodeIds)
    IN Scored([i \in 1..Len(in_cycle) |->
                  OrchestratorScoreOf(in_cycle[i], shard_size_bytes)])

\* --- GPUTelemetryAggregator.compute_device_scores
\* GPUDevice values, memory in GiB: more and less memory, one without
\* compute units, one without bandwidth
ScoredGPUDevices ==
    { [device_id |-> "cuda:0", memory_available |-> 4, compute_units |-> 2,
       bandwidth_gbps |-> 2, clock_rate_mhz |-> 1],
      [device_id |-> "cuda:1", memory_available |-> 2, compute_units |-> 1,
       bandwidth_gbps |-> 1, clock_rate_mhz |-> 1],
      [device_id |-> "metal:0", memory_available |-> 1, compute_units |-> 0,
       bandwidth_gbps |-> 1, clock_rate_mhz |-> 1],
      [device_id |-> "rocm:0", memory_available |-> 3, compute_units |-> 1,
       bandwidth_gbps |-> 0, clock_rate_mhz |-> 2],
      [device_id |-> "vulkan:0", memory_available |-> 0, compute_units |-> 1,
       bandwidth_gbps |-> 3, clock_rate_mhz |-> 1] }

\* compute_score: the device's compute over the largest of the list, 0.5 when
\* that is not positive
RelativeCompute(device, devs) ==
    LET reference_compute ==
            SeqMax([i \in 1..Len(devs) |-> ComputeThousandths(devs[i])])
    IN IF reference_compute > 0
       THEN ClampedRatio(ComputeThousandths(device), reference_compute)
       ELSE Fraction(1, 2)

\* memory_score of the aggregator; den = 0 when the division fails
AggregatorMemoryScore(memory_available, estimated_memory) ==
    IF memory_available >= estimated_memory
    THEN IF estimated_memory * 2 = 0 THEN Divide(memory_available, 0)
         ELSE ClampedRatio(memory_available, estimated_memory * 2)
    ELSE IF estimated_memory = 0 THEN Divide(memory_available, 0)
         ELSE Reduced(3 * memory_available, 10 * estimated_memory)

\* bandwidth_score: the device's bandwidth over the average of the list, 0.5
\* when that is not positive
RelativeBandwidth(device, devs) ==
    LET total == SumField(devs, "bandwidth_gbps")
    IN IF total > 0 THEN ClampedRatio(device.bandwidth_gbps * Len(devs), total)
       ELSE Fraction(1, 2)

\* total_score: compute 0.40, memory 0.30, bandwidth 0.15, network 0.10,
\* thermal 0.05
TotalScore(compute, memory, bandwidth, network, thermal) ==
    FracAdd(FracAdd(FracAdd(FracAdd(FracTimes(compute, Fraction(2, 5)),
                                    FracTimes(memory, Fraction(3, 10))),
                            FracTimes(bandwidth, Fraction(3, 20))),
                    FracTimes(network, Fraction(1, 10))),
            FracTimes(thermal, Fraction(1, 20)))

\* GPUDeviceScore(...) of the aggregator for one device
AggregatorScoreOf(device, devs, estimated_memory) ==
    LET compute == RelativeCompute(device, devs)
        memory == AggregatorMemoryScore(device.memory_available, estimated_memory)
        bandwidth == RelativeBandwidth(device, devs)
    IN [device_id |-> device.device_id, compute_score |-> compute,
        memory_score |-> memory, bandwidth_score |-> bandwidth,
        network_score |-> Fraction(4, 5), thermal_score |-> Fraction(9, 10),
        total_score |-> TotalScore(compute, memory, bandwidth,
                                   Fraction(4, 5), Fraction(9, 10))]

\* compute_device_scores(devices, model_config): the dict device_id -> score,
\* the last device of an id winning; ZeroDivisionError when a division fails
AggregatorDeviceScores(devs, estimated_memory) ==
    IF \E i \in 1..Len(devs) :
          DivisionFailed(AggregatorMemoryScore(devs[i].memory_available,
                                               estimated_memory))
    THEN ScoringRaised("ZeroDivisionError")
    ELSE Scored([id \in {devs[i].device_id : i \in 1..Len(devs)} |->
                    LET last == CHOOSE i \in 1..Len(devs) :
                                   /\ devs[i].device_id = id
                                   /\ \A j \in (i + 1)..Len(devs) :
                                         devs[j].device_id # id
                    IN AggregatorScoreOf(devs[last], devs, estimated_memory)])

ScorerKinds ==
    {"compute_device_scores", "_compute_device_scores",
     "GPUTelemetryAggregator.compute_device_scores"}

\* shard sizes and estimated memory sizes, in GiB
RequiredSizes == 0..5

\* a caller holds the arguments of one scorer
InitScore ==
    /\ SolveIdle
    /\ PlaceIdle
    /\ InstIdle
    /\ TelIdle
    /\ GuardIdle
    /\ AggIdle
    /\ DistIdle
    /\ scorer \in ScorerKinds
    /\ CASE scorer = "compute_device_scores" ->
              /\ scored_devices \in ListsUpTo(CspSampleDevices, MaxScored)
              /\ required_memory = 0
         [] scorer = "_compute_device_scores" ->
              /\ scored_devices \in ListsUpTo(SampleDeviceStates, MaxScored)
              /\ required_memory \in RequiredSizes
         [] OTHER ->
              /\ scored_devices \in ListsUpTo(ScoredGPUDevices, MaxScored)
              /\ required_memory \in RequiredSizes
    /\ device_score_list = <<>>

\* compute_device_scores(devices)
ComputeDeviceScoresCall ==
    /\ scorer = "compute_device_scores"
    /\ device_score_list = <<>>
    /\ device_score_list' = <<ComputeDeviceScores(scored_devices)>>
    /\ UNCHANGED <<scorer, scored_devices, required_memory>>
    /\ UNCHANGED <<csp_vars, place_vars, inst_vars, tel_vars, agg_vars, dist_vars,
                   guard_vars>>

\* _compute_device_scores(cycle_node_ids, gpu_device_state, shard_size_bytes,
\* topology)
OrchestratorDeviceScoresCall ==
    /\ scorer = "_compute_device_scores"
    /\ device_score_list = <<>>
    /\ device_score_list' = <<OrchestratorDeviceScores(scored_devices, required_memory)>>
    /\ UNCHANGED <<scorer, scored_devices, required_memory>>
    /\ UNCHANGED <<csp_vars, place_vars, inst_vars, tel_vars, agg_vars, dist_vars,
                   guard_vars>>

\* GPUTelemetryAggregator.compute_device_scores(devices, model_config)
AggregatorDeviceScoresCall ==
    /\ scorer = "GPUTelemetryAggregator.compute_device_scores"
    /\ device_score_list = <<>>
    /\ device_score_list' = <<AggregatorDeviceScores(scored_devices, required_memory)>>
    /\ UNCHANGED <<scorer, scored_devices, required_memory>>
    /\ UNCHANGED <<csp_vars, place_vars, inst_vars, tel_vars, agg_vars, dist_vars,
                   guard_vars>>

\* ------------------------------------------------------------ specification
Solve ==
    \/ Validate
    \/ WaitForTimesOut
    \/ SolveCspBegin
    \/ BacktrackEnter
    \/ TryCandidate
    \/ LoopExhausted
    \/ BacktrackReturn
    \/ SolveCspReturn
    \/ GreedyStep
    \/ GreedyReturn

Init == InitCSP /\ PlaceIdle /\ InstIdle /\ TelIdle /\ CalcIdle

Next == Solve

\* one call of solve_placement
Spec == Init /\ [][Next]_vars

NextAsync ==
    \/ Solve
    \/ TimerExpires
    \/ CancelRequested

\* solve_placement awaited by a caller that may time out or cancel
SpecAsync == Init /\ [][NextAsync]_vars

NextPlace ==
    \/ FilterCycles
    \/ CheckSharding
    \/ SelectCycle
    \/ BuildInstance

\* one call of place_instance
SpecPlace == InitPlace /\ [][NextPlace]_vars

NextInstances ==
    \/ FilterCycles
    \/ CheckSharding
    \/ SelectCycle
    \/ BuildInstance
    \/ DeleteInstance
    \/ GetTransitionEvents

\* the master's handling of place, delete and the events between mappings
SpecInstances == InitInstances /\ [][NextInstances]_vars

NextTelemetry ==
    \/ RegisterDevice
    \/ ReceiveMetrics
    \/ RecordMetrics
    \/ ReadMetrics

\* record_metrics calls and readers on one collector or manager
SpecTelemetry == InitTelemetry /\ [][NextTelemetry]_vars

NextManager ==
    \/ RegisterDevice
    \/ ReceiveMetrics
    \/ RecordMetrics
    \/ GetAggregatedMetrics
    \/ Shutdown
    \/ ShutdownSignal
    \/ ShutdownClear

\* register_device, record_metrics, get_aggregated_metrics and shutdown calls
\* on one manager
SpecManager == InitManager /\ [][NextManager]_vars

\* a GPUClusteringManagerImproved has just been constructed
InitShutdown ==
    /\ InitManager
    /\ collector_kind = "GPUClusteringManagerImproved"

NextShutdown ==
    \/ RegisterDevice
    \/ ReceiveMetrics
    \/ RecordMetrics
    \/ ShutdownSignal
    \/ ShutdownClear

\* register_device and record_metrics calls on a GPUClusteringManagerImproved,
\* interleaved with one call of its shutdown
SpecShutdown == InitShutdown /\ [][NextShutdown]_vars

NextAggregate == AggregateClusterMetrics

\* one call of aggregate_cluster_metrics
SpecAggregate == InitAggregate /\ [][NextAggregate]_vars

NextDistribute ==
    \/ DistributeUniformCall
    \/ DistributeByCapacityCall

\* one call of a workload distributor
SpecDistribute == InitDistribute /\ [][NextDistribute]_vars

NextScore ==
    \/ ComputeDeviceScoresCall
    \/ OrchestratorDeviceScoresCall
    \/ AggregatorDeviceScoresCall

\* one call of a device scorer
SpecScore == InitScore /\ [][NextScore]_vars

Returned == pc = "done"
Raised == pc = "raised"

\* ============================================================== properties
\* no device holds more bytes than its memory_available
MemoryRespected(asg) ==
    \A k \in 1..Len(devices) :
        DeviceTotalSize(asg, shard_sizes, devices[k].device_id)
            <= devices[k].memory_available

DeviceIds == {devices[k].device_id : k \in 1..Len(devices)}
ScoredIds == {device_scores[k].device_id : k \in 1..Len(device_scores)}

\* some total assignment of the shards to the devices respects every memory
ExistsMemoryRespecting ==
    \E f \in [0..(num_shards - 1) -> DeviceIds] : MemoryRespected(f)

\* every shard has a non-empty initial domain: the backtracking search runs
SearchRuns ==
    /\ timeout_positive
    /\ \A i \in 0..(num_shards - 1) :
          ComputeInitialDomains(num_shards, shard_sizes, devices, device_scores)[i] # <<>>

\* C1: every assignment solve_placement returns, from the search or from the
\* greedy fallback, keeps the summed shard sizes on every device within that
\* device's memory_available.
C1_MemoryRespected == Returned => MemoryRespected(result)

\* C2: no assignment solve_placement returns gives two shards to one device.
C2_OneShardPerDevice ==
    Returned => \A i, j \in DOMAIN result : i # j => result[i] # result[j]

\* C3: whenever solve_placement returns, the mapping has exactly the keys
\* 0..num_shards-1 and every value is the device id of an entry of device_scores.
C3_TotalAssignment ==
    Returned =>
        /\ DOMAIN result = 0..(num_shards - 1)
        /\ \A i \in DOMAIN result : result[i] \in ScoredIds

\* C3 witness: the search placed two shards and solve_placement returned them
C3_Witness ==
    /\ Returned
    /\ source = "csp"
    /\ num_shards = 2
    /\ DOMAIN result = {0, 1}

\* C4: when no assignment respects the devices' memory, solve_placement returns
\* no assignment (it reports the failure to the caller instead).
C4_InfeasibleReported == Returned => ExistsMemoryRespecting

\* C5: whenever some total assignment respects every device's memory,
\* solve_placement returns an assignment that respects every device's memory.
C5_FindsValidPlacement ==
    (Returned /\ ExistsMemoryRespecting) => MemoryRespected(result)

\* C6: once timeout_seconds have elapsed during the search, solve_placement
\* abandons the search, so what it returns is the greedy fallback's assignment.
C6_TimeoutAbandonsSearch == (Returned /\ timer_expired) => source = "greedy"

\* C7: after a cancel request at most one further step of _backtrack runs, and
\* the cancelled call returns no assignment.
C7_CancelStopsSearch ==
    /\ steps_after_cancel <= 1
    /\ cancel_requested => ~Returned

RECURSIVE CallCost(_)
\* a bound on the steps one call of _backtrack at this depth takes: entering,
\* for each of at most Len(devices) candidates the try, the inner call and the
\* return from it, and leaving the loop
CallCost(depth) ==
    IF depth >= num_shards THEN 1
    ELSE 2 + Len(devices) * (2 + CallCost(depth + 1))

\* the steps left to a call that waits for its inner call: the return, the
\* candidates after the current one, leaving the loop
AwaitCost(k) ==
    2 + (Len(stack[k].iter) - stack[k].pos) * (2 + CallCost(k))

\* the steps left to the innermost call while it is in its loop
LoopCost ==
    1 + (Len(Top.iter) - Top.pos + 1) * (2 + CallCost(Len(stack)))

GreedyCost == num_shards + 2

\* a bound on the number of steps solve_placement still takes
Rank ==
    CASE pc = "start" -> GreedyCost + CallCost(0) + 3
      [] pc = "wait_for" -> GreedyCost + CallCost(0) + 2
      [] pc = "search" /\ mode = "call" ->
            GreedyCost + 1 + CallCost(Len(stack))
                + SumOver(1..Len(stack), [k \in 1..Len(stack) |-> AwaitCost(k)])
      [] pc = "search" /\ mode = "loop" ->
            GreedyCost + 1 + LoopCost
                + SumOver(1..(Len(stack) - 1), [k \in 1..Len(stack) |-> AwaitCost(k)])
      [] pc = "search" /\ mode = "ret" ->
            GreedyCost + 1
                + SumOver(1..Len(stack), [k \in 1..Len(stack) |-> AwaitCost(k)])
      [] pc = "greedy" -> Len(shard_order) - gpos + 2
      [] OTHER -> 0

\* a step that changes the state can be taken (the actions of each phase of
\* the call are the only ones their pc enables)
CanStep ==
    CASE pc = "start" -> ENABLED <<Validate>>_vars
      [] pc = "wait_for" -> ENABLED <<WaitForTimesOut \/ SolveCspBegin>>_vars
      [] pc = "search" ->
            ENABLED <<BacktrackEnter \/ TryCandidate \/ LoopExhausted
                        \/ BacktrackReturn \/ SolveCspReturn>>_vars
      [] pc = "greedy" -> ENABLED <<GreedyStep \/ GreedyReturn>>_vars
      [] OTHER -> FALSE

\* C8: every call of solve_placement ends, returning an assignment or raising:
\* until it has, a step that changes the state can be taken, and every step
\* lowers a natural-number bound on the steps that remain.
C8_Terminates ==
    /\ [](Rank >= 0 /\ (Returned \/ Raised \/ CanStep))
    /\ [][Rank' < Rank]_vars

\* C8 witness: the search ran, was exhausted without a solution, and the greedy
\* fallback then ended the call
C8_Witness ==
    /\ Returned
    /\ source = "greedy"
    /\ num_shards >= 2
    /\ SearchRuns

PlaceSelected == ppc \in {"selected", "placed"}

\* C9: the cycle place_instance selected has at least min_nodes nodes, holds
\* every required node, and its members' summed available RAM covers the
\* model's storage size.
C9_SelectedCyclePassesFilters ==
    PlaceSelected =>
        /\ Len(selected_cycle) >= command.min_nodes
        /\ required_nodes \subseteq SeqRange(selected_cycle)
        /\ CycleRam(selected_cycle, node_memory) >= command.model_card.storage_size

\* C9 witness: a three-node cycle was selected for required nodes although a
\* shorter cycle holding them, with enough RAM, exists in the topology
C9_Witness ==
    /\ ppc = "placed"
    /\ Len(selected_cycle) = 3
    /\ required_nodes # {}
    /\ \E c \in GetCycles(topology) :
          /\ Len(c) < Len(selected_cycle)
          /\ required_nodes \subseteq SeqRange(c)
          /\ CycleRam(c, node_memory) >= command.model_card.storage_size

\* the cycles that pass the min_nodes, required_nodes and memory filters
MemorySufficientCycles ==
    FilterCyclesByMemory(
        RequiredNodesFilter(MinNodesFilter(GetCycles(topology), command.min_nodes),
                            required_nodes),
        node_memory, command.model_card.storage_size)

\* C10: for a Tensor request the selected cycle's length divides hidden_size,
\* and when no memory-sufficient cycle has such a length the call fails
\* instead of going on to select a cycle.
C10_TensorCycleDivides ==
    (command.sharding = "Tensor") =>
        /\ PlaceSelected => command.model_card.hidden_size % Len(selected_cycle) = 0
        /\ (/\ ppc \notin {"start", "filtered"}
            /\ \A c \in MemorySufficientCycles :
                  command.model_card.hidden_size % Len(c) # 0)
              => (ppc = "raised" /\ selected_cycle = <<>>)

\* C10 witness: a Tensor request selected a three-node cycle although a
\* memory-sufficient two-node cycle, whose length does not divide, exists
C10_Witness ==
    /\ command.sharding = "Tensor"
    /\ ppc = "placed"
    /\ Len(selected_cycle) = 3
    /\ \E c \in MemorySufficientCycles :
          Len(c) = 2 /\ command.model_card.hidden_size % Len(c) # 0

\* a cycle that has min_nodes nodes, holds the required nodes and has the RAM
Feasible(c) ==
    /\ Len(c) >= command.min_nodes
    /\ required_nodes \subseteq SeqRange(c)
    /\ CycleRam(c, node_memory) >= command.model_card.storage_size

NoFeasibleCycle == \A c \in GetCycles(topology) : ~Feasible(c)

\* C11: when no cycle of the topology passes the min_nodes, required_nodes and
\* memory filters, place_instance raises its no-cycle error, returns no
\* mapping, selects no cycle and leaves current_instances as it was given.
C11_NoFeasibleCycleFails ==
    (ppc \notin {"idle", "start"} /\ NoFeasibleCycle) =>
        /\ ppc = "raised"
        /\ perror = "No cycles found with sufficient memory"
        /\ target_instances = EmptyMap
        /\ selected_cycle = <<>>
        /\ current_instances = (1 :> ExistingInstance)

\* C11 witness: the call failed although a cycle with enough nodes and RAM
\* exists, because no such cycle holds the required nodes
C11_Witness ==
    /\ ppc = "raised"
    /\ perror = "No cycles found with sufficient memory"
    /\ NoFeasibleCycle
    /\ required_nodes # {}
    /\ \E c \in GetCycles(topology) :
          /\ Len(c) >= command.min_nodes
          /\ CycleRam(c, node_memory) >= command.model_card.storage_size

\* the cycles that passed the min_nodes, required_nodes, memory and tensor filters
PassedCycles ==
    {c \in MemorySufficientCycles :
        command.sharding = "Tensor" => command.model_card.hidden_size % Len(c) = 0}

\* the cycles of S of the smallest node count
SmallestOf(S) == {c \in S : \A d \in S : Len(c) <= Len(d)}

AllRdma(S) == {c \in S : IsRdmaCycle(topology, c)}

\* C12 as stated: for an MlxJaccl request, when some cycle that passed the
\* filters is all-RDMA, the selected cycle is all-RDMA.
C12_RdmaBeforeSmallest ==
    (/\ ppc = "selected"
     /\ command.instance_meta = "MlxJaccl"
     /\ AllRdma(PassedCycles) # {})
        => IsRdmaCycle(topology, selected_cycle)

\* C12 amended: for an MlxJaccl request, when some passed cycle of the smallest
\* node count is all-RDMA, the selected cycle is an all-RDMA cycle of the
\* smallest node count.
C12_RdmaAmongSmallest ==
    (ppc = "selected" /\ command.instance_meta = "MlxJaccl") =>
        LET smallest == SmallestOf(PassedCycles)
        IN AllRdma(smallest) # {} =>
              /\ IsRdmaCycle(topology, selected_cycle)
              /\ selected_cycle \in smallest

\* C12 witness: an all-RDMA cycle was selected for an MlxJaccl request although
\* a smallest cycle that is not all-RDMA has more RAM
C12_Witness ==
    /\ ppc = "selected"
    /\ command.instance_meta = "MlxJaccl"
    /\ IsRdmaCycle(topology, selected_cycle)
    /\ \E c \in SmallestOf(PassedCycles) :
          /\ ~IsRdmaCycle(topology, c)
          /\ CycleRam(c, node_memory) > CycleRam(selected_cycle, node_memory)

HasLeaf(c) == \E n \in SeqRange(c) : NodeIsLeaf(topology, n)

\* the smallest passed cycles that remain after the RDMA restriction
RemainingSmallest ==
    LET smallest == SmallestOf(PassedCycles)
        rdma == AllRdma(smallest)
    IN IF command.instance_meta = "MlxJaccl" /\ rdma # {} THEN rdma ELSE smallest

\* C13: the selected cycle has the smallest node count of the passed cycles;
\* it holds a leaf node whenever one of the remaining smallest cycles does;
\* and no cycle of the set it was chosen from (those with a leaf if any, else
\* all the remaining smallest) has more summed available RAM.
C13_SmallestLeafMaxRam ==
    ppc = "selected" =>
        LET passed == PassedCycles
            remaining == RemainingSmallest
            leafy == {c \in remaining : HasLeaf(c)}
            pool == IF leafy # {} THEN leafy ELSE remaining
            ram == CycleRam(selected_cycle, node_memory)
        IN /\ selected_cycle \in passed
           /\ \A d \in passed : Len(selected_cycle) <= Len(d)
           /\ leafy # {} => HasLeaf(selected_cycle)
           /\ selected_cycle \in pool
           /\ \A d \in pool : ram >= CycleRam(d, node_memory)

\* C13 witness: a cycle with a leaf node was selected although a cycle of the
\* same size without a leaf has more RAM and a larger cycle passed as well
C13_Witness ==
    /\ ppc = "selected"
    /\ HasLeaf(selected_cycle)
    /\ \E c \in RemainingSmallest :
          ~HasLeaf(c) /\ CycleRam(c, node_memory) > CycleRam(selected_cycle, node_memory)
    /\ \E c \in PassedCycles : Len(c) > Len(selected_cycle)

\* the instance the call created
CreatedInstance ==
    target_instances[CHOOSE i \in DOMAIN target_instances : i \notin DOMAIN current_instances]

\* C14: the shard assignment of the instance place_instance creates is the
\* assignment solve_placement returned to it for the selected cycle's devices.
C14_SolverDecidesShards ==
    ppc = "placed" =>
        /\ Returned
        /\ CreatedInstance.shard_assignments = result

CreatedAt == {k \in 1..Len(events) : events[k].type = "InstanceCreated"}
DeletedAt == {k \in 1..Len(events) : events[k].type = "InstanceDeleted"}

\* C15: get_transition_events returns exactly one InstanceCreated, carrying
\* the target's instance, for each id in target and not in current, exactly
\* one InstanceDeleted for each id in current and not in target, and no other
\* event; the events applied to current give the ids of target; equal id sets
\* give no event.
C15_TransitionEventsExact ==
    epc = "done" =>
        /\ \A id \in DOMAIN eto \ DOMAIN efrom :
              /\ Cardinality({k \in CreatedAt : events[k].instance.instance_id = id}) = 1
              /\ \A k \in CreatedAt :
                    events[k].instance.instance_id = id => events[k].instance = eto[id]
        /\ \A id \in DOMAIN efrom \ DOMAIN eto :
              Cardinality({k \in DeletedAt : events[k].instance_id = id}) = 1
        /\ \A k \in CreatedAt : events[k].instance.instance_id \in DOMAIN eto \ DOMAIN efrom
        /\ \A k \in DeletedAt : events[k].instance_id \in DOMAIN efrom \ DOMAIN eto
        /\ DOMAIN ApplyEvents(efrom, events) = DOMAIN eto
        /\ DOMAIN efrom = DOMAIN eto => events = <<>>

\* C15 witness: one call returned a creation and a deletion while a third
\* instance, present in both mappings, got no event
C15_Witness ==
    /\ epc = "done"
    /\ CreatedAt # {}
    /\ DeletedAt # {}
    /\ DOMAIN efrom \cap DOMAIN eto # {}

C17_DeleteInstance ==
    /\ [](dpc = "done" =>
            /\ dcommand \in DOMAIN dgiven
            /\ DOMAIN dresult = DOMAIN dgiven \ {dcommand}
            /\ \A i \in DOMAIN dresult : dresult[i] = dgiven[i])
    /\ [](dpc = "raised" => (dcommand \notin DOMAIN dgiven /\ dresult = EmptyMap))
    /\ [][dpc' # dpc =>
            (current_instances' = current_instances
                /\ target_instances' = target_instances)]_vars
    /\ []((dpc = "done" /\ ppc = "placed" /\ dgiven = target_instances
            /\ dcommand \notin DOMAIN current_instances)
            => DOMAIN dresult = DOMAIN current_instances)

\* C17 witness: the instance place_instance created was deleted again
C17_Witness ==
    /\ dpc = "done"
    /\ ppc = "placed"
    /\ dgiven = target_instances
    /\ dcommand \notin DOMAIN current_instances
    /\ current_instances # EmptyMap

\* ------------------------------------------------------- telemetry claims
\* the snapshots applied for a device, in the order they were applied
RecordedFor(device_id) ==
    SelectSeq(recorded_log, LAMBDA metrics : metrics.device_id = device_id)

\* the last n elements of a sequence, all of it when it is shorter
LastN(s, n) == SubSeq(s, Len(s) - Min(n, Len(s)) + 1, Len(s))

\* C18: after any sequence of record_metrics calls, each device's history
\* holds at most max_history snapshots, and they are the most recently
\* recorded snapshots of that device, in receipt order.
C18_HistoryBounded ==
    \A device_id \in TelemetryDeviceIds :
        LET history == HistoryOf(metrics_history, device_id)
        IN /\ Len(history) <= max_history
           /\ history = LastN(RecordedFor(device_id), max_history)

\* the timestamps of a sequence of snapshots grow: they are in receipt order
InReceiptOrder(s) ==
    \A i \in 1..(Len(s) - 1) : s[i].timestamp < s[i + 1].timestamp

\* what a reader got is a whole state of its device: nothing recorded, or a
\* current snapshot that is the last element of the history
ReadIsWhole(read) ==
    IF read.history = <<>> THEN read.current = <<>>
    ELSE /\ read.current = <<read.history[Len(read.history)]>>
         /\ read.current[1].device_id = read.device_id
         /\ InReceiptOrder(read.history)

\* C19: under any interleaving of record_metrics calls and readers, the
\* snapshots of a device are applied in receipt order, get_metrics returns
\* the most recently applied snapshot of the device, which is also the last
\* element of its history, and no reader sees one updated without the other.
C19_CurrentIsLatestApplied ==
    LET log == recorded_log
    IN /\ InReceiptOrder(log)
       /\ \A k \in 1..Len(inbox) :
             /\ log # <<>> => log[Len(log)].timestamp < inbox[k].timestamp
             /\ k > 1 => inbox[k - 1].timestamp < inbox[k].timestamp
       /\ \A device_id \in TelemetryDeviceIds :
             LET recorded == RecordedFor(device_id)
                 current == GetMetrics(current_metrics, device_id)
                 history == GetMetricsHistory(metrics_history, device_id)
             IN IF recorded = <<>>
                THEN current = <<>> /\ history = <<>>
                ELSE /\ current = <<recorded[Len(recorded)]>>
                     /\ history # <<>>
                     /\ history[Len(history)] = recorded[Len(recorded)]
                     /\ InReceiptOrder(history)
       /\ last_read # <<>> => ReadIsWhole(last_read[1])

\* a reader ran between two calls for one device while a third call was
\* waiting, and got the second snapshot as current and as last of the history
C19_Witness ==
    /\ last_read # <<>>
    /\ Len(last_read[1].history) >= 2
    /\ last_read[1].current = <<last_read[1].history[Len(last_read[1].history)]>>
    /\ inbox # <<>>
    /\ Len(recorded_log) >= 2
    /\ \E device_id \in TelemetryDeviceIds :
          /\ Len(RecordedFor(device_id)) >= 2
          /\ GetMetrics(current_metrics, device_id)[1].timestamp > 1

\* the snapshot is one the manager is to reject: utilization outside
\* [0,100], negative used memory, used memory above the total, a temperature
\* below absolute zero, or a device that was never registered
InvalidMetrics(registered, metrics) ==
    \/ metrics.device_id \notin registered
    \/ metrics.compute_utilization_percent < 0
    \/ metrics.compute_utilization_percent > 100
    \/ metrics.memory_used_bytes < 0
    \/ metrics.memory_used_bytes > metrics.memory_total_bytes
    \/ metrics.temperature_celsius < AbsoluteZero

\* a snapshot of a registered device that has memory and breaks no bound
ValidMetrics(registered, metrics) ==
    /\ ~InvalidMetrics(registered, metrics)
    /\ metrics.memory_total_bytes > 0

\* the manager has run the oldest waiting call of record_metrics
ManagerRanCall ==
    /\ collector_kind = "GPUClusteringManagerImproved"
    /\ inbox # <<>>
    /\ inbox' = Tail(inbox)

C21_AggregateCountsRegistered ==
    collector_kind = "GPUClusteringManager" =>
        LET aggregate == GetAggregated(collector_kind, shutdown_phase, current_metrics)
        IN /\ aggregate.counted \subseteq registered_devices
           /\ aggregate.device_count <= Cardinality(registered_devices)

\* C23: in every state reachable by register_device, record_metrics and
\* shutdown calls on a GPUClusteringManagerImproved, get_aggregated_metrics
\* returns without raising, and returns the empty result whenever no device
\* has a recorded snapshot.
C23_AggregateNeverRaises ==
    collector_kind = "GPUClusteringManagerImproved" =>
        LET aggregate == GetAggregated(collector_kind, shutdown_phase, current_metrics)
        IN /\ aggregate.raised = "none"
           /\ DOMAIN current_metrics = {} => aggregate.empty

\* ---------------------------------------------------- aggregator claims
\* C22: aggregate_cluster_metrics never raises; without devices (no nodes,
\* or nodes with empty device lists) it returns device count 0, memory
\* totals 0, average and bottleneck bandwidth 0, an empty vendor breakdown
\* and heterogeneity ratio 1.0; with exactly one device the ratio is 1.0.
C22_AggregateOfNothingIsZero ==
    cluster_metrics # <<>> =>
        LET metrics == cluster_metrics[1]
            given == SumOver(1..Len(devices_by_node),
                             [i \in 1..Len(devices_by_node) |-> Len(devices_by_node[i])])
        IN /\ metrics.raised = "none"
           /\ given = 0 =>
                 /\ metrics.total_devices = 0
                 /\ metrics.total_memory_bytes = 0
                 /\ metrics.total_available_memory = 0
                 /\ metrics.average_bandwidth_gbps.num = 0
                 /\ metrics.bottleneck_bandwidth_gbps.num = 0
                 /\ DOMAIN metrics.device_count_by_vendor = {}
                 /\ metrics.heterogeneous_ratio.num = metrics.heterogeneous_ratio.den
           /\ given = 1 =>
                 metrics.heterogeneous_ratio.num = metrics.heterogeneous_ratio.den

\* the call returned for two nodes whose device lists are empty
C22_Witness ==
    /\ cluster_metrics # <<>>
    /\ Len(devices_by_node) = 2
    /\ \A i \in 1..Len(devices_by_node) : devices_by_node[i] = <<>>
    /\ cluster_metrics[1].total_devices = 0

\* --------------------------------------------------- distributor claims
\* the number of times an item occurs in the chunks of a returned dict
Occurrences(chunks, item) ==
    SumOver(DOMAIN chunks,
            [d \in DOMAIN chunks |->
                Cardinality({i \in 1..Len(chunks[d]) : chunks[d][i] = item})])

\* every item of the call is in exactly one chunk, one time
EachItemOnce(chunks) ==
    \A item \in SeqRange(workload_items) : Occurrences(chunks, item) = 1

\* C24: for all distribute_uniform(devices, items) calls, every item appears
\* in exactly one device's chunk and the chunk sizes of any two devices
\* differ by at most 1.
C24_UniformEveryItemOnce ==
    (strategy = "uniform" /\ max_per_device = <<>> /\ distribution # <<>>) =>
        LET chunks == distribution[1].chunks
        IN /\ distribution[1].raised = "none"
           /\ EachItemOnce(chunks)
           /\ \A d, e \in DOMAIN chunks :
                 Len(chunks[d]) - Len(chunks[e]) <= 1

\* C25: for every distribute_by_capacity(capacity_weights, items) call that
\* returns, every item is assigned exactly once: the chunks are pairwise
\* disjoint and together hold each item of the input list one time.
C25_CapacityEveryItemOnce ==
    (strategy = "capacity" /\ distribution # <<>> /\ distribution[1].raised = "none") =>
        LET chunks == distribution[1].chunks
        IN /\ EachItemOnce(chunks)
           /\ \A d \in DOMAIN chunks :
                 SeqRange(chunks[d]) \subseteq SeqRange(workload_items)
           /\ \A d, e \in DOMAIN chunks :
                 d # e => SeqRange(chunks[d]) \cap SeqRange(chunks[e]) = {}
           /\ DOMAIN chunks = CapacityKeys(capacities)


\* C26: distribute_by_capacity gives no items to a device whose capacity
\* weight is zero, for every weight map with positive total weight and every
\* item list.
C26_ZeroWeightGetsNothing ==
    (strategy = "capacity" /\ distribution # <<>> /\ TotalCapacity(capacities) > 0) =>
        (distribution[1].raised = "none" =>
            \A d \in CapacityKeys(capacities) :
                WeightOf(capacities, d) = 0 => distribution[1].chunks[d] = <<>>)

\* round(a / b) of Python for a >= 0 and b > 0: to the nearest integer, a half
\* to the even one
RoundHalfEven(a, b) ==
    LET q == a \div b
        r == a % b
    IN IF 2 * r < b THEN q
       ELSE IF 2 * r > b THEN q + 1
       ELSE IF q % 2 = 0 THEN q ELSE q + 1

\* the number of items the stated rule gives device d: the rounded share, at
\* least 1 for a positive weight while items remain, cut to the items that
\* remain, and the items left after the last device for the largest weight
RoundedShares(caps, n_items) ==
    LET keys == CapacityKeys(caps)
        total == TotalCapacity(caps)
        rounded(d) == RoundHalfEven(n_items * WeightOf(caps, d), total)
        counts[k \in 0..Cardinality(keys)] ==
            \* <<items given so far, the count of each of the k smallest keys>>
            IF k = 0 THEN [given |-> 0, count |-> [d \in {} |-> 0]]
            ELSE LET prev == counts[k - 1]
                     d == CHOOSE e \in keys : Cardinality({f \in keys : f < e}) = k - 1
                     remain == n_items - prev.given
                     want == IF WeightOf(caps, d) > 0 /\ remain > 0
                             THEN Max(1, rounded(d)) ELSE rounded(d)
                     got == Min(want, remain)
                 IN [given |-> prev.given + got,
                     count |-> [e \in DOMAIN prev.count \cup {d} |->
                                   IF e = d THEN got ELSE prev.count[e]]]
        last == counts[Cardinality(keys)]
    IN [d \in keys |->
           last.count[d] + (IF d = LargestDevice(caps) THEN n_items - last.given ELSE 0)]

\* C27: distribute_by_capacity allocates round(len(items) * weight / total)
\* items to each device, at least 1 when the device has positive weight and
\* items remain, and the items left over to the device of the largest weight,
\* so that every device's share is within one item of len(items) * weight /
\* total.
C27_SharesAreRounded ==
    (strategy = "capacity" /\ distribution # <<>> /\ workload_items # <<>>
        /\ TotalCapacity(capacities) > 0
        /\ \A i \in 1..Len(capacities) : capacities[i].weight >= 0) =>
        LET chunks == distribution[1].chunks
            n == Len(workload_items)
            total == TotalCapacity(capacities)
        IN /\ distribution[1].raised = "none"
           /\ \A d \in CapacityKeys(capacities) :
                 /\ Len(chunks[d]) = RoundedShares(capacities, n)[d]
                 /\ Len(chunks[d]) * total - n * WeightOf(capacities, d) <= total
                 /\ n * WeightOf(capacities, d) - Len(chunks[d]) * total <= total

\* C28: distribute_by_capacity fails with an invalid-capacity error and gives
\* no item to any device whenever a capacity weight is negative or all weights
\* are zero.
C28_InvalidCapacityRejected ==
    (strategy = "capacity" /\ distribution # <<>> /\ capacities # <<>>
        /\ (\/ \E i \in 1..Len(capacities) : capacities[i].weight < 0
            \/ \A i \in 1..Len(capacities) : capacities[i].weight = 0)) =>
        /\ distribution[1].raised = "ValueError"
        /\ distribution[1].chunks = EmptyMap


\* the score records of the call that returned
ReturnedScores ==
    IF device_score_list # <<>> /\ device_score_list[1].raised = "none"
    THEN {device_score_list[1].scores[k] : k \in DOMAIN device_score_list[1].scores}
    ELSE {}

\* 0 <= f <= 1
InUnitInterval(f) == f.den > 0 /\ 0 <= f.num /\ f.num <= f.den

\* weighted_score of the placement scorers, total_score of the aggregator's
CompositeOf(s) ==
    IF "total_score" \in DOMAIN s THEN s.total_score ELSE s.weighted_score

\* 0 <= used <= total memory and 0 <= utilization <= 100, for the devices
\* that carry these readings
SnapshotInvariants(d) ==
    /\ "memory_used_bytes" \in DOMAIN d =>
          /\ 0 <= d.memory_used_bytes
          /\ d.memory_used_bytes <= d.memory_total_bytes
          /\ 0 <= d.compute_utilization_percent
          /\ d.compute_utilization_percent <= 100
    /\ "memory_available" \in DOMAIN d => 0 <= d.memory_available

\* C29: every component score and the composite score a scorer returns for a
\* device lies in [0, 1], for compute_device_scores of placement_csp,
\* _compute_device_scores of placement and
\* GPUTelemetryAggregator.compute_device_scores, when the devices satisfy the
\* snapshot invariants.
C29_ScoresInUnitInterval ==
    (\A i \in 1..Len(scored_devices) : SnapshotInvariants(scored_devices[i])) =>
        \A s \in ReturnedScores :
            /\ InUnitInterval(s.compute_score)
            /\ InUnitInterval(s.memory_score)
            /\ InUnitInterval(s.network_score)
            /\ InUnitInterval(s.thermal_score)
            /\ InUnitInterval(s.bandwidth_score)
            /\ InUnitInterval(CompositeOf(s))

\* a scorer returned the score of a device beyond the reference figures: its
\* compute and memory scores are 1 and its composite is below 1
C29_Witness ==
    \E s \in ReturnedScores :
        /\ s.compute_score = Fraction(1, 1)
        /\ s.memory_score = Fraction(1, 1)
        /\ CompositeOf(s).num < CompositeOf(s).den
        /\ \E i \in 1..Len(scored_devices) :
              /\ scored_devices[i].device_id = s.device_id
              /\ scorer = "compute_device_scores"
              /\ scored_devices[i].memory_available > ReferenceMemory

\* memory_available of the device a score is for
AvailableOf(s) ==
    LET d == CHOOSE x \in SeqRange(scored_devices) : x.device_id = s.device_id
    IN IF "memory_available" \in DOMAIN d THEN d.memory_available
       ELSE MemoryAvailableBytes(d)

\* C30: the memory_score computed for a required size is exactly 0 when the
\* device's available memory is below the required size, exactly 1 when it is
\* at least twice the required size, and on the line through these bounds in
\* between (available / (2 * required), or (available - required) / required),
\* for _compute_device_scores of placement and for
\* GPUTelemetryAggregator.compute_device_scores.
C30_MemoryScoreBounds ==
    (scorer \in {"_compute_device_scores",
                 "GPUTelemetryAggregator.compute_device_scores"}
        /\ device_score_list # <<>>) =>
        \A s \in ReturnedScores :
              LET available == AvailableOf(s)
                  m == s.memory_score
              IN IF available < required_memory THEN m = Fraction(0, 1)
                 ELSE IF available >= 2 * required_memory THEN m = Fraction(1, 1)
                 ELSE \/ m.num * 2 * required_memory = available * m.den
                      \/ m.num * required_memory
                            = (available - required_memory) * m.den


\* C30, amended: the memory_score is exactly 1 when the available memory is at
\* least twice the required size and available / (2 * required) from the
\* required size up to twice it; below the required size it is exactly 0 for
\* _compute_device_scores of placement and 0.3 * available / required for
\* GPUTelemetryAggregator.compute_device_scores.
C30_MemoryScoreBoundsAmended ==
    (scorer \in {"_compute_device_scores",
                 "GPUTelemetryAggregator.compute_device_scores"}
        /\ device_score_list # <<>>) =>
        \A s \in ReturnedScores :
              LET available == AvailableOf(s)
                  m == s.memory_score
              IN IF available < required_memory
                 THEN IF scorer = "_compute_device_scores" THEN m = Fraction(0, 1)
                      ELSE m.den > 0
                             /\ m.num * 10 * required_memory = 3 * available * m.den
                 ELSE IF available >= 2 * required_memory THEN m = Fraction(1, 1)
                 ELSE m.den > 0 /\ m.num * 2 * required_memory = available * m.den

\* the aggregator scored a device that has memory, but less than required:
\* its memory_score is above 0
C30_Witness ==
    /\ scorer = "GPUTelemetryAggregator.compute_device_scores"
    /\ \E s \in ReturnedScores :
          /\ 0 < AvailableOf(s)
          /\ AvailableOf(s) < required_memory
          /\ s.memory_score.num > 0


\* C31: the thermal score used for placement is never zero: a device whose
\* temperature has reached or passed its throttle threshold scores at a
\* positive floor, and a device far below the threshold (20 degrees or more)
\* scores 1.0.
C31_ThermalScoreNeverZero ==
    scorer = "_compute_device_scores" =>
        \A s \in ReturnedScores :
            LET d == CHOOSE x \in SeqRange(scored_devices) : x.device_id = s.device_id
                thermal_margin == DefaultThrottleThreshold - d.thermal_temperature_c
            IN /\ s.thermal_score.num > 0
               /\ thermal_margin >= 20 => s.thermal_score = Fraction(1, 1)

\* ------------------------------------------------------------------ C34
\* the ids of the devices whose available memory covers the shard
MemoryCovers(shard_idx) ==
    {devices[k].device_id : k \in {j \in 1..Len(devices) :
        devices[j].memory_available >= shard_sizes[shard_idx + 1]}}

\* the ids of the devices whose available memory covers the shard and that
\* have a score with a positive memory_score
MemoryCoversScored(shard_idx) ==
    {did \in MemoryCovers(shard_idx) :
        \E k \in 1..Len(device_scores) :
            /\ device_scores[k].device_id = did
            /\ device_scores[k].memory_score > 0}

\* the weighted score of the device's entry in device_scores, 0 without one
DomainWeight(did) ==
    LET k == FirstScoreIndex(device_scores, did)
    IN IF k = 0 THEN 0 ELSE WeightedScore(device_scores[k])

\* the list is in descending order of the devices' weighted scores
DescendingWeighted(domain) ==
    \A a, b \in 1..Len(domain) : a < b => DomainWeight(domain[a]) >= DomainWeight(domain[b])

\* C34: the initial domain of each shard is exactly the set of devices whose
\* available memory is at least the shard's size, in descending order of
\* weighted score.
C34_InitialDomainIsMemoryFit ==
    [][SolveCspBegin =>
        \A i \in 0..(num_shards - 1) :
            /\ SeqRange(domains'[i]) = MemoryCovers(i)
            /\ Len(domains'[i]) = Cardinality(MemoryCovers(i))
            /\ DescendingWeighted(domains'[i])]_vars

\* C34 amended: the initial domain of each shard is exactly the set of devices
\* whose available memory is at least the shard's size and that have a score
\* with a positive memory_score, in descending order of weighted score.
C34_InitialDomainIsScoredMemoryFit ==
    [][SolveCspBegin =>
        \A i \in 0..(num_shards - 1) :
            /\ SeqRange(domains'[i]) = MemoryCoversScored(i)
            /\ Len(domains'[i]) = Cardinality(MemoryCoversScored(i))
            /\ DescendingWeighted(domains'[i])]_vars

\* C34 witness: _solve_csp has just computed the domains, and a shard's domain
\* lists a later device before an earlier one because its score is higher
C34_Witness ==
    /\ pc = "search"
    /\ mode = "call"
    /\ stack = <<>>
    /\ assignment = EmptyMap
    /\ \E i \in DOMAIN domains :
        /\ Len(domains[i]) >= 2
        /\ domains[i][1] > domains[i][2]
        /\ DomainWeight(domains[i][1]) > DomainWeight(domains[i][2])

\* ------------------------------------------------------------------ C36
\* _solve_csp is returning the assignment its search completed
CspReturnsAssignment ==
    /\ pc = "search"
    /\ mode = "ret"
    /\ stack = <<>>
    /\ ret

\* C36: whenever _solve_csp returns an assignment, that assignment is total
\* over the shard indices, gives every shard a device no other shard has, and
\* puts every shard on a device whose memory_available is at least its size.
C36_CspAssignmentSound ==
    CspReturnsAssignment =>
        /\ DOMAIN assignment = 0..(num_shards - 1)
        /\ \A i, j \in DOMAIN assignment : i # j => assignment[i] # assignment[j]
        /\ \A i \in DOMAIN assignment :
            \E k \in 1..Len(devices) :
                /\ devices[k].device_id = assignment[i]
                /\ devices[k].memory_available >= shard_sizes[i + 1]

\* C36 witness: _solve_csp returns an assignment of two shards of different
\* sizes
C36_Witness ==
    /\ CspReturnsAssignment
    /\ num_shards = 2
    /\ shard_sizes[1] # shard_sizes[2]
    /\ DOMAIN assignment = {0, 1}

\* ------------------------------------------------------------------ C33
\* the innermost call of _backtrack has run out of candidates and returns False
BacktrackFails ==
    /\ pc = "search"
    /\ mode = "loop"
    /\ Top.pos > Len(Top.iter)

\* C33: whenever a call of _backtrack returns failure, the assignment and every
\* shard's domain are exactly as they were when that call started.
C33_FailureRestoresState ==
    BacktrackFails =>
        /\ assignment = Top.entry_assignment
        /\ \A i \in DOMAIN domains : domains[i] = Top.entry_domains[i]
        /\ DOMAIN domains = DOMAIN Top.entry_domains

\* C33 witness: an inner call of _backtrack, entered with a shard assigned by
\* its caller, fails after it has tried and undone a candidate of its own while
\* another shard is still unassigned
C33_Witness ==
    /\ BacktrackFails
    /\ Len(stack) >= 2
    /\ Len(Top.iter) >= 1
    /\ assignment # EmptyMap
    /\ \E i \in DOMAIN domains : Top.old_domains[i] # <<>> /\ i \notin DOMAIN assignment

\* ------------------------------------------------------------------ C37
\* the device has an entry in device_scores with a positive memory_score and
\* its memory_available covers the shard
CanHost(did, shard_idx) ==
    /\ \E k \in 1..Len(devices) :
        /\ devices[k].device_id = did
        /\ devices[k].memory_available >= shard_sizes[shard_idx + 1]
    /\ \E k \in 1..Len(device_scores) :
        /\ device_scores[k].device_id = did
        /\ device_scores[k].memory_score > 0

\* some assignment puts every shard on a device of its own that can host it
\* (max_backtrack_depth is the default, which num_shards never exceeds here)
OneShardPerDeviceExists ==
    /\ Len(shard_sizes) = num_shards
    /\ num_shards <= MaxBacktrackDepth
    /\ \E f \in [0..(num_shards - 1) -> DeviceIds] :
        /\ \A i, j \in DOMAIN f : i # j => f[i] # f[j]
        /\ \A i \in DOMAIN f : CanHost(f[i], i)

\* the search has handed its assignment to solve_placement, which never went
\* to the greedy fallback
SearchAnswers ==
    /\ pc # "greedy"
    /\ Returned => source = "csp"

\* C37: the backtracking search is complete for one-shard-per-device
\* placements: if some assignment puts every shard on a distinct device that
\* has a positive memory score and memory_available at least the shard's size,
\* and num_shards does not exceed max_backtrack_depth, then _solve_csp returns
\* an assignment and solve_placement does not use the greedy fallback.
C37_SearchComplete == OneShardPerDeviceExists => SearchAnswers

\* C37 amended: the same, for at least one shard and a positive
\* timeout_seconds (stated by its contrapositive: a call that raises or goes
\* to the greedy fallback had no such assignment).
C37_SearchCompleteWhenRun ==
    (num_shards >= 1 /\ timeout_positive /\ ~(SearchAnswers /\ ~Raised)) =>
        ~OneShardPerDeviceExists

\* C37 witness: the search answered for two shards of which only the second
\* fits the first device, so the first shard went to the second device
C37_Witness ==
    /\ Returned
    /\ source = "csp"
    /\ OneShardPerDeviceExists
    /\ num_shards = 2
    /\ result[0] = 2
    /\ result[1] = 1
    /\ ~CanHost(2, 1)

\* ------------------------------------------------------------------ C35
\* the scored devices whose memory_available, less the shards the partial
\* assignment has placed on them, covers a shard of this size
CapacityCovers(asg, size) ==
    {did \in ScoredIds :
        DeviceMemory(devices, did) - DeviceTotalSize(asg, shard_sizes, did) >= size}

\* did has the highest weighted score among the devices of the set
HighestScoring(did, among) ==
    /\ did \in among
    /\ \A other \in among : DomainWeight(did) >= DomainWeight(other)

\* C35: the greedy fallback processes the shards in descending order of size
\* and gives each shard to the highest-scoring device whose remaining tracked
\* capacity (the device's available memory less the shards already placed on
\* it) covers the shard; when no device qualifies it gives the shard to the
\* single highest-scoring device, whatever the order of device_scores.
C35_GreedyFollowsCapacity ==
    [][GreedyStep =>
        LET shard_idx == shard_order[gpos]
            size == shard_sizes[shard_idx + 1]
            chosen == assignment'[shard_idx]
            fits == CapacityCovers(assignment, size)
        IN /\ \A k \in 1..(gpos - 1) : shard_sizes[shard_order[k] + 1] >= size
           /\ IF fits # {}
              THEN HighestScoring(chosen, fits)
              ELSE HighestScoring(chosen, ScoredIds)]_vars

\* ------------------------------------------------------------------ C38
\* the shutdown of a GPUClusteringManagerImproved has started
ShutdownStarted ==
    /\ collector_kind = "GPUClusteringManagerImproved"
    /\ shutdown_phase # "none"

\* the snapshots the collector holds, current and in the histories
HeldSnapshots ==
    {current_metrics[d] : d \in DOMAIN current_metrics}
        \cup UNION {SeqRange(metrics_history[d]) : d \in DOMAIN metrics_history}

\* a step of register_device or record_metrics taken after the shutdown has
\* started adds nothing and ends with an error
LateCallRejected ==
    (ShutdownStarted /\ (RegisterDevice \/ RecordMetrics)) =>
        /\ last_outcome' = "RuntimeError"
        /\ registered_devices' = registered_devices
        /\ current_metrics' = current_metrics
        /\ metrics_history' = metrics_history

\* C38: once GPUClusteringManagerImproved.shutdown has started, no
\* register_device or record_metrics call adds a device or a snapshot, in any
\* interleaving with the shutdown and its grace period: such calls fail with
\* an error, and when the shutdown completes no registered device and no
\* recorded snapshot remains.
C38_ShutdownAdmitsNothing ==
    /\ [][LateCallRejected]_vars
    /\ [][ShutdownStarted =>
            /\ registered_devices' \subseteq registered_devices
            /\ HeldSnapshots' \subseteq HeldSnapshots]_vars
    /\ []((ShutdownStarted /\ shutdown_phase = "complete") =>
            /\ registered_devices = {}
            /\ HeldSnapshots = {})

\* C38 witness: a device was registered and a snapshot recorded, the shutdown
\* set its event, and a call that ran in the grace period, while the device and
\* the snapshot were still held, was rejected
C38_Witness ==
    /\ ShutdownStarted
    /\ shutdown_phase = "signalled"
    /\ last_outcome = "RuntimeError"
    /\ registered_devices # {}
    /\ HeldSnapshots # {}

\* ================================================= exo.security.gpu_access
\* the members of the enum GPUPermission
GPUPermissions ==
    {"device:list", "device:info", "device:allocate",
     "memory:allocate", "memory:deallocate", "memory:copy_to_device",
     "memory:copy_from_device", "memory:copy_device_to_device",
     "compute:execute", "compute:synchronize",
     "monitor:memory", "monitor:temperature", "monitor:power", "monitor:clock",
     "admin:full_access"}

\* the members of the enum GPURole
GPURoles == {"monitor", "user", "power_user", "admin"}

\* ROLE_PERMISSIONS
RolePermissions(role) ==
    CASE role = "monitor" ->
            {"device:list", "device:info", "monitor:memory", "monitor:temperature",
             "monitor:power", "monitor:clock"}
      [] role = "user" ->
            {"device:list", "device:info", "memory:allocate", "memory:deallocate",
             "memory:copy_to_device", "memory:copy_from_device",
             "compute:execute", "compute:synchronize", "monitor:memory"}
      [] role = "power_user" -> GPUPermissions \ {"admin:full_access"}
      [] role = "admin" -> {"admin:full_access"}

\* GPUAccessPolicy.get_effective_permissions: the admin role returns every
\* permission from inside the loop over the roles
GetEffectivePermissions(policy) ==
    IF "admin" \in policy.roles
    THEN GPUPermissions
    ELSE (policy.custom_permissions
            \cup UNION {RolePermissions(role) : role \in policy.roles})
         \ policy.denied_permissions

\* GPUAccessPolicy.has_permission
HasPermission(policy, permission) ==
    IF policy.expired THEN FALSE
    ELSE LET effective == GetEffectivePermissions(policy)
         IN IF "admin:full_access" \in effective THEN TRUE
            ELSE permission \in effective

\* the permissions the policies' custom and denied sets are drawn from: one
\* the user roles grant, one the monitor role grants, and the admin permission
SamplePermissions == {"memory:allocate", "monitor:power", "admin:full_access"}

\* a policy has just been constructed
InitAccess ==
    /\ SolveIdle
    /\ PlaceIdle
    /\ InstIdle
    /\ TelIdle
    /\ AggIdle
    /\ DistIdle
    /\ ScoreIdle
    /\ QuotaIdle
    /\ ThermalIdle
    /\ \E roles \in SUBSET GPURoles,
          custom \in SUBSET SamplePermissions,
          denied \in SUBSET SamplePermissions,
          expired \in BOOLEAN :
            access_policy = [roles |-> roles,
                             custom_permissions |-> custom,
                             denied_permissions |-> denied,
                             expired |-> expired]
    /\ access_call = [name |-> "none"]

\* a caller asks for the policy's effective permissions
GetEffectivePermissionsCall ==
    /\ access_policy # <<>>
    /\ access_call' = [name |-> "get_effective_permissions",
                       returned |-> GetEffectivePermissions(access_policy)]
    /\ UNCHANGED access_policy
    /\ UNCHANGED <<csp_vars, place_vars, inst_vars, tel_vars, agg_vars, dist_vars,
                   score_vars, quota_vars, thermal_vars>>

\* a caller asks whether the policy grants one permission
HasPermissionCall ==
    /\ access_policy # <<>>
    /\ \E permission \in GPUPermissions :
          access_call' = [name |-> "has_permission",
                          permission |-> permission,
                          returned |-> HasPermission(access_policy, permission)]
    /\ UNCHANGED access_policy
    /\ UNCHANGED <<csp_vars, place_vars, inst_vars, tel_vars, agg_vars, dist_vars,
                   score_vars, quota_vars, thermal_vars>>

NextAccess ==
    \/ GetEffectivePermissionsCall
    \/ HasPermissionCall

\* calls of get_effective_permissions and has_permission on one policy
SpecAccess == InitAccess /\ [][NextAccess]_vars

\* ------------------------------------------------------------------ C32
\* C32: denied permissions override grants: for every access policy and every
\* permission in its denied_permissions, get_effective_permissions does not
\* contain that permission and has_permission returns False for it, whatever
\* roles and custom permissions the policy holds.
C32_DeniedOverridesGrants ==
    /\ access_call.name = "get_effective_permissions" =>
          access_call.returned \cap access_policy.denied_permissions = {}
    /\ (/\ access_call.name = "has_permission"
        /\ access_call.permission \in access_policy.denied_permissions) =>
          access_call.returned = FALSE

\* ------------------------------------- GPUAccessControl: the memory quota
\* the most requests of the principal in flight together
MaxRequests == 3

\* the largest quota and the largest request, in bytes
MaxQuota == 2

\* the principal's policy has just been added; the requests are the
\* allocations its tasks are about to ask for
InitQuota ==
    /\ SolveIdle
    /\ PlaceIdle
    /\ InstIdle
    /\ TelIdle
    /\ AggIdle
    /\ DistIdle
    /\ ScoreIdle
    /\ AccessIdle
    /\ ThermalIdle
    /\ memory_quota_bytes \in {<<>>} \cup {<<q>> : q \in 1..MaxQuota}
    /\ memory_usage = 0
    /\ \E n \in 1..MaxRequests :
       \E sizes \in [1..n -> 1..MaxQuota] :
          quota_requests = [r \in 1..n |-> [size |-> sizes[r], at |-> "new"]]

\* what check_memory_quota returns for a principal that has a policy
WithinQuota(quota, current_usage, requested_bytes) ==
    IF quota = <<>> THEN TRUE
    ELSE ~(current_usage + requested_bytes > quota[1])

\* a task's call of check_memory_quota runs, under the lock, to its end
CheckMemoryQuota ==
    /\ \E r \in DOMAIN quota_requests :
        /\ quota_requests[r].at = "new"
        /\ quota_requests' =
              [quota_requests EXCEPT ![r].at =
                  IF WithinQuota(memory_quota_bytes, memory_usage, quota_requests[r].size)
                  THEN "granted" ELSE "refused"]
    /\ UNCHANGED <<memory_quota_bytes, memory_usage>>
    /\ UNCHANGED <<csp_vars, place_vars, inst_vars, tel_vars, agg_vars, dist_vars,
                   score_vars, access_vars, thermal_vars>>

\* a task whose check returned True calls track_memory_allocation, which
\* runs, under the lock, to its end
TrackMemoryAllocation ==
    /\ \E r \in DOMAIN quota_requests :
        /\ quota_requests[r].at = "granted"
        /\ memory_usage' = memory_usage + quota_requests[r].size
        /\ quota_requests' = [quota_requests EXCEPT ![r].at = "tracked"]
    /\ UNCHANGED memory_quota_bytes
    /\ UNCHANGED <<csp_vars, place_vars, inst_vars, tel_vars, agg_vars, dist_vars,
                   score_vars, access_vars, thermal_vars>>

\* a task frees what it allocated and calls track_memory_deallocation with a
\* size_bytes of its choice
TrackMemoryDeallocation ==
    /\ \E r \in DOMAIN quota_requests, size_bytes \in 1..MaxQuota :
        /\ quota_requests[r].at = "tracked"
        /\ memory_usage' = Max(0, memory_usage - size_bytes)
        /\ quota_requests' = [quota_requests EXCEPT ![r].at = "released"]
    /\ UNCHANGED memory_quota_bytes
    /\ UNCHANGED <<csp_vars, place_vars, inst_vars, tel_vars, agg_vars, dist_vars,
                   score_vars, access_vars, thermal_vars>>

NextQuota ==
    \/ CheckMemoryQuota
    \/ TrackMemoryAllocation
    \/ TrackMemoryDeallocation

\* concurrent tasks of one principal, each checking the quota, tracking its
\* allocation when the check passed, and tracking its deallocation
SpecQuota == InitQuota /\ [][NextQuota]_vars

\* ------------------------------------------------------------------ C39
\* C39: if every memory allocation of a principal is tracked with
\* track_memory_allocation only after check_memory_quota returned True for
\* that request, then under any interleaving of concurrent requests the
\* principal's tracked memory usage never exceeds its memory_quota_bytes, and
\* it never drops below zero after deallocations.
C39_UsageWithinQuota ==
    /\ memory_quota_bytes # <<>> => memory_usage <= memory_quota_bytes[1]
    /\ memory_usage >= 0

\* ============================================ exo.worker.thermal_executor
\* the most readings the monitor loop handles
MaxReadings == 4

\* ThermalState.thermal_throttle_threshold_c
ThermalThrottleThreshold == 85

\* the margin below which inference pauses
PauseMarginC == 5

\* the margin above which inference resumes
ResumeMarginC == 10

\* the temperature a new executor's ThermalState starts with
InitialTemperatureC == 25

\* the temperatures the backend reports: margins of 15, 10, 7, 5 and 3 degrees
TemperatureReadings == {70, 75, 78, 80, 82}

\* ThermalState.thermal_margin_c
ThermalMarginC(state) == ThermalThrottleThreshold - state.current_temperature_c

\* ThermalState.should_pause_inference
ShouldPauseInference(state) == ThermalMarginC(state) < PauseMarginC

\* CanResumeInference without the gap between the two margins
CanResumeInferenceAtOnce(state) == ThermalMarginC(state) >= PauseMarginC

\* ThermalState.can_resume_inference
CanResumeInference(state) == ThermalMarginC(state) > ResumeMarginC

\* an executor has just been constructed
InitThermal ==
    /\ SolveIdle
    /\ PlaceIdle
    /\ InstIdle
    /\ TelIdle
    /\ AggIdle
    /\ DistIdle
    /\ ScoreIdle
    /\ AccessIdle
    /\ QuotaIdle
    /\ thermal_state = [current_temperature_c |-> InitialTemperatureC,
                        is_paused_for_cooling |-> FALSE]
    /\ callbacks = [pause |-> FALSE, resume |-> FALSE]
    /\ notifications = <<>>
    /\ readings_handled = 0
    /\ callbacks_at_first_reading = <<>>

\* set_pause_callback
SetPauseCallback ==
    /\ callbacks # <<>>
    /\ ~callbacks.pause
    /\ callbacks' = [callbacks EXCEPT !.pause = TRUE]
    /\ UNCHANGED <<thermal_state, notifications, readings_handled,
                   callbacks_at_first_reading>>
    /\ UNCHANGED <<csp_vars, place_vars, inst_vars, tel_vars, agg_vars, dist_vars,
                   score_vars, access_vars, quota_vars>>

\* set_resume_callback
SetResumeCallback ==
    /\ callbacks # <<>>
    /\ ~callbacks.resume
    /\ callbacks' = [callbacks EXCEPT !.resume = TRUE]
    /\ UNCHANGED <<thermal_state, notifications, readings_handled,
                   callbacks_at_first_reading>>
    /\ UNCHANGED <<csp_vars, place_vars, inst_vars, tel_vars, agg_vars, dist_vars,
                   score_vars, access_vars, quota_vars>>

\* one pass of _monitor_loop: the reading is stored and _handle_thermal_state
\* sets or clears the flag and calls the callback that is set
HandleThermalState ==
    /\ callbacks # <<>>
    /\ readings_handled < MaxReadings
    /\ \E temp \in TemperatureReadings :
        LET read == [thermal_state EXCEPT !.current_temperature_c = temp]
        IN IF ShouldPauseInference(read)
           THEN IF ~read.is_paused_for_cooling
                THEN /\ thermal_state' = [read EXCEPT !.is_paused_for_cooling = TRUE]
                     /\ notifications' = IF callbacks.pause
                                         THEN Append(notifications, "pause")
                                         ELSE notifications
                ELSE /\ thermal_state' = read
                     /\ notifications' = notifications
           ELSE IF CanResumeInference(read) /\ read.is_paused_for_cooling
                THEN /\ thermal_state' = [read EXCEPT !.is_paused_for_cooling = FALSE]
                     /\ notifications' = IF callbacks.resume
                                         THEN Append(notifications, "resume")
                                         ELSE notifications
                ELSE /\ thermal_state' = read
                     /\ notifications' = notifications
    /\ readings_handled' = readings_handled + 1
    /\ callbacks_at_first_reading' =
          IF readings_handled = 0 THEN <<callbacks>> ELSE callbacks_at_first_reading
    /\ UNCHANGED callbacks
    /\ UNCHANGED <<csp_vars, place_vars, inst_vars, tel_vars, agg_vars, dist_vars,
                   score_vars, access_vars, quota_vars>>

NextThermal ==
    \/ SetPauseCallback
    \/ SetResumeCallback
    \/ HandleThermalState

\* the readings one executor handles, and the registration of its callbacks
SpecThermal == InitThermal /\ [][NextThermal]_vars

\* ------------------------------------------------------------------ C40
\* this step called the callback of this name
Fired(name) ==
    /\ Len(notifications') = Len(notifications) + 1
    /\ notifications'[Len(notifications')] = name

\* each callback fires only in its own case, and a reading whose margin is
\* between the two margins leaves the flag as it was
CallbacksFireInTheirCase ==
    HandleThermalState =>
        LET margin == ThermalMarginC(thermal_state')
            paused == thermal_state.is_paused_for_cooling
        IN /\ Fired("pause") => (~paused /\ margin < PauseMarginC)
           /\ Fired("resume") => (paused /\ margin > ResumeMarginC)
           /\ (PauseMarginC <= margin /\ margin <= ResumeMarginC) =>
                 thermal_state'.is_paused_for_cooling = paused

\* the notifications are pause, resume, pause, ... in this order
StrictlyAlternate ==
    \A k \in 1..Len(notifications) :
        notifications[k] = IF k % 2 = 1 THEN "pause" ELSE "resume"

\* both callbacks were set when the first reading was handled
BothSetBeforeFirstReading ==
    /\ callbacks_at_first_reading # <<>>
    /\ callbacks_at_first_reading[1].pause
    /\ callbacks_at_first_reading[1].resume

\* C40: across any sequence of temperature readings the executor handles, the
\* pause callback fires only when the executor is not paused and the margin to
\* the throttle threshold is below 5 degrees, the resume callback fires only
\* when it is paused and the margin is above 10 degrees, and a reading with a
\* margin between 5 and 10 degrees leaves the paused flag unchanged; hence
\* pause and resume notifications strictly alternate, starting with a pause.
C40_NotificationsAlternate ==
    /\ [][CallbacksFireInTheirCase]_vars
    /\ []StrictlyAlternate

\* C40 amended: the same, with the alternation for an executor whose two
\* callbacks were both set before its first reading was handled.
C40_NotificationsAlternateWhenBothSet ==
    /\ [][CallbacksFireInTheirCase]_vars
    /\ [](BothSetBeforeFirstReading => StrictlyAlternate)

\* C40 witness: with both callbacks set from the start the executor paused,
\* resumed and paused again, and the last reading, between the two margins,
\* left it paused
C40_Witness ==
    /\ BothSetBeforeFirstReading
    /\ notifications = <<"pause", "resume", "pause">>
    /\ thermal_state.is_paused_for_cooling
    /\ ThermalMarginC(thermal_state) >= PauseMarginC
    /\ ThermalMarginC(thermal_state) <= ResumeMarginC

====
